---- MODULE Spec2Model ----
(***************************************************************************)
(* Journey Recorder Viewer: the trace -> override -> filter -> timeline /  *)
(* diagram pipeline of src/src/App.tsx, src/src/utils/formatters.ts,       *)
(* utils/traceFilters (src/unnamed/part_004) and components/DiagramPanel   *)
(* (src/unnamed/part_011).                                                 *)
(*                                                                         *)
(* Strings the code only compares or passes on are TLA+ strings.  Strings  *)
(* the code takes apart (hosts, URLs, pattern lines, the diagram script)   *)
(* are sequences of tokens, a token standing for a fixed piece of text.    *)
(* A nullable value is a sequence of length 0 (null) or 1.                 *)
(***************************************************************************)
EXTENDS Integers, Sequences, FiniteSets, TLC

VARIABLES
  loadedTraceFile,   \* useState<TraceFile | null>
  fileNames,         \* useState<{video?, trace?}>
  fileError,         \* useState<string | null>
  eventOverrides,    \* useState<EventOverrideMap>
  filterSettings,    \* useState<TraceFilterSettings>
  video,             \* useState<LoadedVideo | null>
  videoDurationMs,   \* useState<number | null>
  isLoadingTrace,    \* useState<boolean>
  pendingReads,      \* handleTraceSelect calls suspended at `await file.text()`
  loadCount,         \* number of handleTraceSelect calls made so far
  activeMarkerId,    \* useState<string | null>
  activeMarker,      \* useState<TimelineMarker | null>
  activeTraceId,     \* useState<string | number | null>, Undef is null
  activeTraceColor,  \* useState<string | null>, Undef is null
  fnArgs,            \* arguments the pure functions are applied to
  fnResult,          \* what the pure functions returned for fnArgs
  diagramPanel       \* DiagramPanel: its props, state, container and render calls

vars == <<loadedTraceFile, fileNames, fileError, eventOverrides, filterSettings,
          video, videoDurationMs, isLoadingTrace, pendingReads, loadCount,
          activeMarkerId, activeMarker, activeTraceId, activeTraceColor,
          fnArgs, fnResult, diagramPanel>>

appVars == <<loadedTraceFile, fileNames, fileError, eventOverrides, filterSettings,
             video, videoDurationMs, isLoadingTrace, pendingReads, loadCount,
             activeMarkerId, activeMarker, activeTraceId, activeTraceColor>>

markerVars == <<activeMarkerId, activeMarker, activeTraceId, activeTraceColor>>

(***************************************************************************)
(* Bounds of the model.                                                    *)
(***************************************************************************)
MaxEvents == 3        \* longest event list given to a pure function
MaxLoads == 2         \* handleTraceSelect calls in one behaviour
MaxPending == 1       \* file reads in flight at once under Spec

(***************************************************************************)
(* undefined / null                                                        *)
(***************************************************************************)
Undef == "undef"      \* an absent string-valued field
NoNum == -1           \* an absent number-valued field
Null == <<>>          \* null
Some(x) == <<x>>
IsNull(x) == x = <<>>

\* const x = value, then Body(x): the value is computed once
Bind(value, Body(_)) == CHOOSE result \in {Body(x) : x \in {value}} : TRUE

Truthy(s) == s # Undef /\ s # ""

Range(s) == {s[i] : i \in 1..Len(s)}

RECURSIVE SumOver(_, _)
SumOver(S, f) ==
  IF S = {} THEN 0
  ELSE LET x == CHOOSE y \in S : TRUE IN f[x] + SumOver(S \ {x}, f)

(***************************************************************************)
(* Record<string, T>: a function on the set of its keys.                   *)
(***************************************************************************)
EmptyMap == <<>>
HasKey(m, k) == k \in DOMAIN m
MapPut(m, k, v) == [x \in (DOMAIN m) \cup {k} |-> IF x = k THEN v ELSE m[x]]
MapOmit(m, k) == [x \in (DOMAIN m) \ {k} |-> m[x]]

(***************************************************************************)
(* TraceEvent (types/trace.ts).  jrInternalId 0 is an absent or empty id;  *)
(* ref is the identity of the JavaScript object holding the event.  A host *)
(* is the sequence of its dot-separated parts, a path or URL a sequence of *)
(* tokens; the empty sequence is the absent or empty string, which the     *)
(* code treats alike for these fields.  targetUrl is absent in every event *)
(* of the model.                                                           *)
(***************************************************************************)
NoUrl == [scheme |-> "", host |-> <<>>, path |-> <<>>]

BlankEvent ==
  [kind |-> "request", id |-> Undef, jrInternalId |-> 0, ref |-> 0,
   label |-> Undef, text |-> Undef, host |-> <<>>, targetHost |-> <<>>,
   previousHost |-> <<>>, transitionType |-> "", navigationType |-> "",
   url |-> NoUrl, path |-> <<>>, method |-> "", status |-> NoNum,
   statusText |-> "", ts |-> NoNum]

(***************************************************************************)
(* { ...event }: a new object with the same fields.  The objects a parse   *)
(* or an input list creates have even refs (NewRef); a copy has an odd ref *)
(* no other object has.                                                    *)
(***************************************************************************)
NewRef(i) == 2 * i
CopyRef(ref) == 2 * ref + 1
CloneEvent(event) == [event EXCEPT !.ref = CopyRef(event.ref)]

(***************************************************************************)
(* EventOverride = { label?, removed? }                                    *)
(***************************************************************************)
Override(label, removed) == [label |-> label, removed |-> removed]

(***************************************************************************)
(* applyEventOverridesToEvents                                             *)
(***************************************************************************)
\* applyEventOverridesToEvents writing the new label into the event itself
RECURSIVE applyEventOverridesInPlace(_, _)
applyEventOverridesInPlace(events, overrides) ==
  IF events = <<>> THEN <<>>
  ELSE
    LET event == Head(events)
        internalId == event.jrInternalId
        rest == applyEventOverridesInPlace(Tail(events), overrides)
    IN IF internalId # 0 /\ HasKey(overrides, internalId)
       THEN LET override == overrides[internalId]
            IN IF override.removed THEN rest
               ELSE IF override.label # Undef /\ override.label # event.label
                    THEN <<[event EXCEPT !.label = override.label]>> \o rest
                    ELSE <<event>> \o rest
       ELSE <<event>> \o rest

RECURSIVE applyEventOverridesToEvents(_, _)
applyEventOverridesToEvents(events, overrides) ==
  IF events = <<>> THEN <<>>
  ELSE
    LET event == Head(events)
        internalId == event.jrInternalId
        rest == applyEventOverridesToEvents(Tail(events), overrides)
    IN IF internalId # 0 /\ HasKey(overrides, internalId)
       THEN LET override == overrides[internalId]
            IN IF override.removed THEN rest
               ELSE IF override.label # Undef /\ override.label # event.label
                    THEN <<[CloneEvent(event) EXCEPT !.label = override.label]>> \o rest
                    ELSE <<event>> \o rest
       ELSE <<event>> \o rest

(***************************************************************************)
(* Text as tokens.  WS is a run of blanks, NL a line break.                *)
(***************************************************************************)
WS == " "
NL == "\n"

RECURSIVE DropLeadingWS(_)
DropLeadingWS(t) ==
  IF t # <<>> /\ Head(t) = WS THEN DropLeadingWS(Tail(t)) ELSE t

RECURSIVE DropTrailingWS(_)
DropTrailingWS(t) ==
  IF t # <<>> /\ t[Len(t)] = WS THEN DropTrailingWS(SubSeq(t, 1, Len(t) - 1)) ELSE t

\* String.prototype.trim
Trim(t) == DropTrailingWS(DropLeadingWS(t))

\* String.prototype.split('\n'): the lines of a text, the empty text giving one empty line
RECURSIVE SplitLines(_)
SplitLines(t) ==
  IF \A i \in 1..Len(t) : t[i] # NL THEN <<t>>
  ELSE LET k == CHOOSE i \in 1..Len(t) : t[i] = NL /\ \A j \in 1..(i - 1) : t[j] # NL
       IN <<SubSeq(t, 1, k - 1)>> \o SplitLines(SubSeq(t, k + 1, Len(t)))

\* Array.prototype.join('\n')
RECURSIVE JoinLines(_)
JoinLines(lines) ==
  IF lines = <<>> THEN <<>>
  ELSE IF Len(lines) = 1 THEN lines[1]
  ELSE lines[1] \o <<NL>> \o JoinLines(Tail(lines))

\* String.prototype.toLowerCase on the tokens that hold capitals
LowerTok(t) ==
  CASE t = ".PNG" -> ".png"
    [] t = "OPTIONS" -> "options"
    [] t = "GET" -> "get"
    [] t = "WWW" -> "www"
    [] OTHER -> t

LowerSeq(s) == [i \in 1..Len(s) |-> LowerTok(s[i])]

(***************************************************************************)
(* RegExp.  A pattern source is a sequence of atoms; "^" first and "$"     *)
(* last are anchors, every other atom stands for a regex fragment whose    *)
(* matches over the model's token universe AtomAlts lists.  "(" is a       *)
(* fragment the RegExp constructor rejects.                                *)
(***************************************************************************)
FlagChars == {"g", "i", "m", "s", "u", "y"}

AtomAlts(atom) ==
  CASE atom = "\\.(png|jpg|jpeg|gif|svg|webp|ico)" -> {<<".png">>}
    [] atom = "(\\?.*)?" -> {<<>>, <<"?q">>}
    [] atom = "\\.png" -> {<<".png">>}
    [] atom = "/a" -> {<<"/a">>}
    [] atom = "/b" -> {<<"/b">>}
    [] atom = "x\\.com" -> {<<"x.com">>}
    [] atom = "OPTIONS" -> {<<"OPTIONS">>}
    [] atom = "GET" -> {<<"GET">>}
    [] atom = "304" -> {<<"304">>}
    [] atom = "200" -> {<<"200">>}
    [] OTHER -> {}

RECURSIVE BodyAlts(_)
BodyAlts(atoms) ==
  IF atoms = <<>> THEN {<<>>}
  ELSE {a \o b : a \in AtomAlts(Head(atoms)), b \in BodyAlts(Tail(atoms))}

\* new RegExp(source, flags); Null when the constructor throws
NewRegExp(source, flags) ==
  LET anchoredStart == source # <<>> /\ Head(source) = "^"
      s1 == IF anchoredStart THEN Tail(source) ELSE source
      anchoredEnd == s1 # <<>> /\ s1[Len(s1)] = "$"
      body == IF anchoredEnd THEN SubSeq(s1, 1, Len(s1) - 1) ELSE s1
      flagsOk == /\ \A i \in 1..Len(flags) : flags[i] \in FlagChars
                 /\ \A i, j \in 1..Len(flags) : i # j => flags[i] # flags[j]
  IN IF "(" \in Range(source) \/ ~flagsOk THEN Null
     ELSE Some([alts |-> BodyAlts(body),
                anchoredStart |-> anchoredStart,
                anchoredEnd |-> anchoredEnd,
                ignoreCase |-> "i" \in Range(flags),
                global |-> "g" \in Range(flags),
                sticky |-> "y" \in Range(flags)])

\* the lengths of the matches of regex in value that start at 0-based index k
MatchLengthsAt(regex, value, k) ==
  {Len(a) : a \in {b \in regex.alts :
      /\ k + Len(b) <= Len(value)
      /\ IF regex.ignoreCase
         THEN LowerSeq(SubSeq(value, k + 1, k + Len(b))) = LowerSeq(b)
         ELSE SubSeq(value, k + 1, k + Len(b)) = b
      /\ regex.anchoredStart => k = 0
      /\ regex.anchoredEnd => k + Len(b) = Len(value)}}

SetMax(S) == CHOOSE x \in S : \A y \in S : y <= x
SetMin(S) == CHOOSE x \in S : \A y \in S : x <= y

\* RegExp.prototype.test with the regex's lastIndex: a global or sticky regex
\* starts at lastIndex and moves it; the others start at 0 and leave it alone
RegExpTest(regex, value, lastIndex) ==
  LET stateful == regex.global \/ regex.sticky
      start == IF stateful THEN lastIndex ELSE 0
      places == IF start > Len(value) THEN {}
                ELSE IF regex.sticky THEN {start}
                ELSE start..Len(value)
      hits == {k \in places : MatchLengthsAt(regex, value, k) # {}}
  IN IF hits = {}
     THEN [matched |-> FALSE, lastIndex |-> IF stateful THEN 0 ELSE lastIndex]
     ELSE LET k == SetMin(hits)
              len == SetMax(MatchLengthsAt(regex, value, k))
          IN [matched |-> TRUE,
              lastIndex |-> IF stateful THEN k + len ELSE lastIndex]

(***************************************************************************)
(* utils/traceFilters                                                      *)
(***************************************************************************)
\* pattern.match(/^\/(.+)\/([gimsuy]*)$/): the index of the closing slash, 0 when
\* the pattern is not framed as /.../flags
LiteralClose(pattern) ==
  LET closers == {k \in 3..Len(pattern) :
                    /\ pattern[k] = "/"
                    /\ \A j \in (k + 1)..Len(pattern) : pattern[j] \in FlagChars}
  IN IF pattern # <<>> /\ Head(pattern) = "/" /\ closers # {} THEN SetMax(closers) ELSE 0

buildRegExp(pattern) ==
  LET k == LiteralClose(pattern)
  IN IF k # 0
     THEN NewRegExp(SubSeq(pattern, 2, k - 1), SubSeq(pattern, k + 1, Len(pattern)))
     ELSE NewRegExp(pattern, <<"i">>)

\* FilterRule { target, regex }, with the regex object's lastIndex
buildRuleFromLine(line) ==
  LET target == IF Head(line) = "method:" THEN "method"
                ELSE IF Head(line) = "status:" THEN "status"
                ELSE "url"
      pattern == IF target = "url" THEN line ELSE Trim(Tail(line))
      regex == buildRegExp(pattern)
  IN IF pattern = <<>> THEN Null
     ELSE IF IsNull(regex) THEN Null
     ELSE Some([target |-> target, regex |-> regex[1], lastIndex |-> 0])

RECURSIVE RulesFromLines(_)
RulesFromLines(lines) ==
  IF lines = <<>> THEN <<>>
  ELSE LET line == Trim(Head(lines))
       IN (IF line = <<>> THEN <<>> ELSE buildRuleFromLine(line))
          \o RulesFromLines(Tail(lines))

\* parseRulesFromText giving up the whole text for one line that is no rule
parseRulesAllOrNothing(text) ==
  IF text = <<>> THEN <<>>
  ELSE LET lines == SplitLines(text)
       IN IF \E i \in 1..Len(lines) :
               Trim(lines[i]) # <<>> /\ IsNull(buildRuleFromLine(Trim(lines[i])))
          THEN <<>>
          ELSE RulesFromLines(lines)

parseRulesFromText(text) ==
  IF text = <<>> THEN <<>> ELSE RulesFromLines(SplitLines(text))

RECURSIVE CompileGroups(_)
CompileGroups(groups) ==
  IF groups = <<>> THEN <<>>
  ELSE LET group == Head(groups)
       IN Bind(parseRulesFromText(group.patternsText), LAMBDA rules :
            IF group.enabled /\ Len(rules) > 0
            THEN <<[id |-> group.id, label |-> group.label, rules |-> rules]>>
            ELSE <<>>)
          \o CompileGroups(Tail(groups))

compileActiveGroups(settings) ==
  Bind(parseRulesFromText(settings.customRegexText), LAMBDA customRules :
    CompileGroups(settings.groups)
    \o (IF Len(customRules) > 0
        THEN <<[id |-> "custom", label |-> "Custom", rules |-> customRules]>>
        ELSE <<>>))

\* String(status): the decimal digits as one token
StatusString(status) ==
  CASE status = 200 -> <<"200">>
    [] status = 304 -> <<"304">>
    [] status = 404 -> <<"404">>
    [] OTHER -> <<>>

\* the text of a URL value
UrlString(url) ==
  (IF url.scheme = "" THEN <<>> ELSE <<url.scheme>>) \o url.host \o url.path

getEventFieldByTarget(event, target) ==
  IF target = "method" THEN (IF event.method = "" THEN <<>> ELSE <<event.method>>)
  ELSE IF target = "status" THEN StatusString(event.status)
  ELSE IF UrlString(event.url) # <<>> THEN UrlString(event.url)
  ELSE event.path

\* the loops of matchEventAgainstGroups from group gi, rule ri on; the groups
\* come back with the lastIndex the tests left in their regexes
RECURSIVE MatchFrom(_, _, _, _)
MatchFrom(event, groups, gi, ri) ==
  IF gi > Len(groups) THEN [id |-> Null, groups |-> groups]
  ELSE IF ri > Len(groups[gi].rules) THEN MatchFrom(event, groups, gi + 1, 1)
  ELSE
    LET rule == groups[gi].rules[ri]
        value == getEventFieldByTarget(event, rule.target)
    IN IF value = <<>> THEN MatchFrom(event, groups, gi, ri + 1)
       ELSE
         Bind(RegExpTest(rule.regex, value, rule.lastIndex), LAMBDA t :
           LET after == IF t.lastIndex = rule.lastIndex THEN groups
                        ELSE [groups EXCEPT ![gi].rules[ri].lastIndex = t.lastIndex]
           IN IF t.matched THEN [id |-> Some(groups[gi].id), groups |-> after]
              ELSE MatchFrom(event, after, gi, ri + 1))

matchEventAgainstGroups(event, groups) == MatchFrom(event, groups, 1, 1)

\* the loop of applyTraceFilters counting a matched request and keeping it
RECURSIVE FilterEventsKeepingCounted(_, _, _, _)
FilterEventsKeepingCounted(events, groups, filteredEvents, ignoredCounts) ==
  IF events = <<>>
  THEN [filteredEvents |-> filteredEvents, ignoredCounts |-> ignoredCounts]
  ELSE
    LET event == Head(events)
    IN IF event.kind # "request"
       THEN FilterEventsKeepingCounted(Tail(events), groups,
              Append(filteredEvents, event), ignoredCounts)
       ELSE
         Bind(matchEventAgainstGroups(event, groups), LAMBDA m :
           IF ~IsNull(m.id) /\ m.id[1] # ""
           THEN FilterEventsKeepingCounted(Tail(events), m.groups,
                  Append(filteredEvents, event),
                  MapPut(ignoredCounts, m.id[1],
                    (IF HasKey(ignoredCounts, m.id[1]) THEN ignoredCounts[m.id[1]] ELSE 0) + 1))
           ELSE FilterEventsKeepingCounted(Tail(events), m.groups,
                  Append(filteredEvents, event), ignoredCounts))

RECURSIVE FilterEvents(_, _, _, _)
FilterEvents(events, groups, filteredEvents, ignoredCounts) ==
  IF events = <<>>
  THEN [filteredEvents |-> filteredEvents, ignoredCounts |-> ignoredCounts]
  ELSE
    LET event == Head(events)
    IN IF event.kind # "request"
       THEN FilterEvents(Tail(events), groups, Append(filteredEvents, event), ignoredCounts)
       ELSE
         Bind(matchEventAgainstGroups(event, groups), LAMBDA m :
           IF ~IsNull(m.id) /\ m.id[1] # ""
           THEN FilterEvents(Tail(events), m.groups, filteredEvents,
                  MapPut(ignoredCounts, m.id[1],
                    (IF HasKey(ignoredCounts, m.id[1]) THEN ignoredCounts[m.id[1]] ELSE 0) + 1))
           ELSE FilterEvents(Tail(events), m.groups, Append(filteredEvents, event),
                  ignoredCounts))

\* applyTraceFilters without the applyFilters switch
applyTraceFiltersAlwaysOn(events, settings) ==
  Bind(compileActiveGroups(settings), LAMBDA activeGroups :
    IF Len(activeGroups) = 0
    THEN [filteredEvents |-> events, ignoredCounts |-> EmptyMap]
    ELSE FilterEvents(events, activeGroups, <<>>, EmptyMap))

applyTraceFilters(events, settings) ==
  IF ~settings.applyFilters
  THEN [filteredEvents |-> events, ignoredCounts |-> EmptyMap]
  ELSE Bind(compileActiveGroups(settings), LAMBDA activeGroups :
         IF Len(activeGroups) = 0
         THEN [filteredEvents |-> events, ignoredCounts |-> EmptyMap]
         ELSE FilterEvents(events, activeGroups, <<>>, EmptyMap))

\* one pattern line per entry, as the text the settings hold
PatternsText(lines) == JoinLines(lines)

FILTER_GROUP_TEMPLATES ==
  << [id |-> "static-assets", label |-> "Static assets", defaultEnabled |-> TRUE,
      patterns |-> << <<"\\.(png|jpg|jpeg|gif|svg|webp|ico)", "(\\?.*)?", "$">>,
                      <<"\\.(css|scss|woff2?|ttf|otf)", "(\\?.*)?", "$">>,
                      <<"/", "_next/static", "/">>,
                      <<"assets-event-page\\.svc\\.sympla\\.com\\.br/_next", "/">> >>],
     [id |-> "tracking", label |-> "Tracking & analytics", defaultEnabled |-> TRUE,
      patterns |-> << <<"google-analytics\\.com">>, <<"googletagmanager\\.com">>,
                      <<"g\\.doubleclick\\.net">>,
                      <<"pagead2\\.googlesyndication\\.com">>, <<"facebook\\.net">>,
                      <<"analytics\\.tiktok\\.com">>, <<"clarity\\.ms">>,
                      <<"bat\\.bing\\.com">>, <<"topsort">>, <<"cdn\\.cookielaw\\.org">> >>],
     [id |-> "extensions", label |-> "Chrome extensions", defaultEnabled |-> TRUE,
      patterns |-> << <<"^", "chrome-extension://">> >>],
     [id |-> "preflight", label |-> "CORS preflight & cached", defaultEnabled |-> TRUE,
      patterns |-> << <<"method:", "^", "OPTIONS", "$">> >>] >>

createDefaultFilterSettings ==
  [applyFilters |-> TRUE,
   customRegexText |-> <<>>,
   groups |-> [i \in 1..Len(FILTER_GROUP_TEMPLATES) |->
                [id |-> FILTER_GROUP_TEMPLATES[i].id,
                 label |-> FILTER_GROUP_TEMPLATES[i].label,
                 enabled |-> FILTER_GROUP_TEMPLATES[i].defaultEnabled # FALSE,
                 patternsText |-> PatternsText(FILTER_GROUP_TEMPLATES[i].patterns)]]]

(***************************************************************************)
(* computeTimeline (App.tsx)                                               *)
(***************************************************************************)
\* host.replace(/^www\./i, '')
normalizeHost(host) ==
  IF Len(host) >= 2 /\ LowerTok(host[1]) = "www" THEN Tail(host) ELSE host

isInteractionKind(kind) ==
  kind = "click" \/ kind = "navigation" \/ kind = "spa-navigation"

\* the keys and ids of events: the internal id when the event has one, else
\* a string built from the raw id or from the kind and a 0-based index
IdText(tag, num, kind, id) == <<tag, num, kind, id>>

\* getEventInternalId(event, getEventKey(event, index))
EventKey(event, index) ==
  IF event.jrInternalId # 0 THEN IdText("jrInternalId", event.jrInternalId, "", "")
  ELSE IF event.id # Undef THEN IdText("id", 0, "", event.id)
  ELSE IdText("kind-index", index, event.kind, "")

\* getEventInternalId(event, `${event.kind}-${event.id ?? index}`)
MarkerId(event, index) ==
  IF event.jrInternalId # 0 THEN IdText("jrInternalId", event.jrInternalId, "", "")
  ELSE IF event.id # Undef THEN IdText("kind-id", 0, event.kind, event.id)
  ELSE IdText("kind-index", index, event.kind, "")

\* the inner loop: the requests from position j up to the next interaction
RECURSIVE RelatedFrom(_, _)
RelatedFrom(events, j) ==
  IF j > Len(events) THEN <<>>
  ELSE IF isInteractionKind(events[j].kind) THEN <<>>
  ELSE (IF events[j].kind = "request" THEN <<events[j]>> ELSE <<>>)
       \o RelatedFrom(events, j + 1)

\* the outer loop from position i on (1-based; the code's index is i - 1)
RECURSIVE CorrelateFrom(_, _, _, _, _)
CorrelateFrom(events, i, lastInteraction, relatedRequestsByEventId, requestTriggerMap) ==
  IF i > Len(events)
  THEN [relatedRequestsByEventId |-> relatedRequestsByEventId,
        requestTriggerMap |-> requestTriggerMap]
  ELSE
    LET event == events[i]
        key == EventKey(event, i - 1)
    IN IF isInteractionKind(event.kind)
       THEN CorrelateFrom(events, i + 1, Some(event),
              MapPut(relatedRequestsByEventId, key, RelatedFrom(events, i + 1)),
              requestTriggerMap)
       ELSE IF event.kind = "request"
       THEN CorrelateFrom(events, i + 1, lastInteraction, relatedRequestsByEventId,
              MapPut(requestTriggerMap, key, lastInteraction))
       ELSE CorrelateFrom(events, i + 1, lastInteraction, relatedRequestsByEventId,
              requestTriggerMap)

\* events.indexOf(event): the 0-based index of the first entry that is this object
IndexOf(events, event) ==
  IF \E i \in 1..Len(events) : events[i] = event
  THEN SetMin({i \in 1..Len(events) : events[i] = event}) - 1
  ELSE 0 - 1

HostOrWebApp(host) == IF host # <<>> THEN normalizeHost(host) ELSE <<"WebApp">>

\* getCurrentHostForRequest taking no notice of the targetHost of a click
getCurrentHostOfTriggerHost(events, requestTriggerMap, event) ==
  LET eventKey == EventKey(event, IndexOf(events, event))
  IN IF HasKey(requestTriggerMap, eventKey) /\ ~IsNull(requestTriggerMap[eventKey])
     THEN HostOrWebApp(requestTriggerMap[eventKey][1].host)
     ELSE <<"WebApp">>

getCurrentHostForRequest(events, requestTriggerMap, event) ==
  LET eventKey == EventKey(event, IndexOf(events, event))
      triggerInteraction == IF HasKey(requestTriggerMap, eventKey)
                            THEN requestTriggerMap[eventKey] ELSE Null
  IN IF ~IsNull(triggerInteraction)
     THEN LET trigger == triggerInteraction[1]
          IN IF trigger.kind = "navigation" \/ trigger.kind = "spa-navigation"
             THEN HostOrWebApp(trigger.host)
             ELSE IF /\ trigger.targetHost # <<>>
                     /\ normalizeHost(trigger.targetHost) # HostOrWebApp(trigger.host)
                  THEN normalizeHost(trigger.targetHost)
                  ELSE HostOrWebApp(trigger.host)
     ELSE <<"WebApp">>

\* the tokens that begin with a slash, and such a token without its slash
SlashTokens == {"/", "/a", "/b", "/png;base64,AAA"}
Unslash(token) ==
  CASE token = "/a" -> "a"
    [] token = "/b" -> "b"
    [] token = "/png;base64,AAA" -> "png;base64,AAA"
    [] OTHER -> ""

\* text.split('/')[0]
RECURSIVE BeforeSlash(_)
BeforeSlash(text) ==
  IF text = <<>> \/ Head(text) \in SlashTokens THEN <<>>
  ELSE <<Head(text)>> \o BeforeSlash(Tail(text))

\* extractEndpointName: the host of new URL(candidate), candidate being the
\* event's url, else its path, else its label.  A URL with a host gives the
\* host; "https://" put before a path makes the path's first segment the host;
\* a data: URL does not parse and gives the text before its first slash
extractEndpointName(event) ==
  IF UrlString(event.url) # <<>>
  THEN (IF event.url.host # <<>> THEN event.url.host
        ELSE BeforeSlash(UrlString(event.url)))
  ELSE IF event.path # <<>>
  THEN (IF Head(event.path) \in SlashTokens
        THEN <<Unslash(Head(event.path))>> \o BeforeSlash(Tail(event.path))
        ELSE BeforeSlash(event.path))
  ELSE IF event.label # Undef /\ event.label # "" THEN <<event.label>>
  ELSE <<"Service">>

OrDefault(s, default) == IF s # "" THEN s ELSE default

deriveParticipants(event, currentHost) ==
  IF event.kind = "click"
  THEN [from |-> <<"User">>,
        to |-> IF /\ event.targetHost # <<>>
                  /\ normalizeHost(event.targetHost) # HostOrWebApp(event.host)
               THEN HostOrWebApp(event.host) \o <<" -> ">> \o normalizeHost(event.targetHost)
               ELSE HostOrWebApp(event.host)]
  ELSE IF event.kind = "navigation"
  THEN [from |-> <<"User">>,
        to |-> HostOrWebApp(event.host)
               \o <<" (", OrDefault(event.transitionType, "navigate"), ")">>]
  ELSE IF event.kind = "spa-navigation"
  THEN LET currentSpaHost == HostOrWebApp(event.previousHost)
           targetSpaHost == IF event.host # <<>> THEN normalizeHost(event.host)
                            ELSE currentSpaHost
           navType == OrDefault(event.navigationType, "navigate")
       IN [from |-> <<"User">>,
           to |-> IF currentSpaHost # targetSpaHost
                  THEN currentSpaHost \o <<" -> ">> \o targetSpaHost \o <<" (", navType, ")">>
                  ELSE targetSpaHost \o <<" (", navType, ")">>]
  ELSE IF event.kind = "request"
  THEN [from |-> currentHost, to |-> extractEndpointName(event)]
  ELSE [from |-> <<"System">>, to |-> <<"System">>]

Clamp(v, lo, hi) == IF v < lo THEN lo ELSE IF v > hi THEN hi ELSE v

\* event.label ?? event.text ?? event.path ?? event.method ?? event.kind
MarkerLabel(event) ==
  IF event.label # Undef THEN <<event.label>>
  ELSE IF event.text # Undef THEN <<event.text>>
  ELSE IF event.path # <<>> THEN event.path
  ELSE IF event.method # "" THEN <<event.method>>
  ELSE <<event.kind>>

\* toMarker; index is the 0-based position in the list being mapped.  position
\* is the fraction num/den of 100 percent, clamped to 0..100; details is left out
toMarker(events, maps, startTs, range, event, index) ==
  LET ts == IF event.ts # NoNum THEN event.ts ELSE startTs
      currentHost == IF event.kind = "request"
                     THEN getCurrentHostForRequest(events, maps.requestTriggerMap, event)
                     ELSE <<"WebApp">>
      participants == deriveParticipants(event, currentHost)
      eventKey == EventKey(event, index)
  IN [id |-> MarkerId(event, index),
      position |-> [num |-> Clamp((ts - startTs) * 100, 0, 100 * range), den |-> range],
      label |-> MarkerLabel(event),
      timestamp |-> event.ts,
      traceId |-> event.id,
      color |-> IF isInteractionKind(event.kind) THEN "#f5d742" ELSE "#4aa3ff",
      from |-> participants.from,
      to |-> participants.to,
      event |-> event,
      relatedRequests |-> IF HasKey(maps.relatedRequestsByEventId, eventKey)
                          THEN maps.relatedRequestsByEventId[eventKey] ELSE <<>>,
      triggeredBy |-> IF HasKey(maps.requestTriggerMap, eventKey)
                      THEN maps.requestTriggerMap[eventKey] ELSE Null]

Min2(a, b) == IF a < b THEN a ELSE b
Max2(a, b) == IF a > b THEN a ELSE b

\* computeTimeline(trace, videoAnchorMs, videoDurationMs), the three nullable
computeTimeline(trace, anchorMs, durationMs) ==
  LET events == IF IsNull(trace) THEN <<>> ELSE trace[1].events
      timestamps == {events[i].ts : i \in {j \in 1..Len(events) : events[j].ts # NoNum}}
  IN IF timestamps = {} /\ IsNull(anchorMs) /\ IsNull(durationMs)
     THEN [clicks |-> <<>>, requests |-> <<>>, timeRangeMs |-> Null,
           startTs |-> Null, endTs |-> Null]
     ELSE
       LET minEventTs == IF timestamps # {} THEN SetMin(timestamps)
                         ELSE IF ~IsNull(anchorMs) THEN anchorMs[1] ELSE 0
           startTs == IF ~IsNull(anchorMs) THEN Min2(anchorMs[1], minEventTs)
                      ELSE minEventTs
           maxEventTs == IF timestamps # {} THEN SetMax(timestamps) ELSE startTs
           videoEndTs == IF ~IsNull(anchorMs) /\ ~IsNull(durationMs)
                         THEN anchorMs[1] + durationMs[1] ELSE maxEventTs
           endTs == Max2(Max2(maxEventTs, videoEndTs), startTs + 1)
           range == endTs - startTs
           maps == CorrelateFrom(events, 1, Null, EmptyMap, EmptyMap)
           interactions == SelectSeq(events, LAMBDA e : isInteractionKind(e.kind))
           requests == SelectSeq(events, LAMBDA e : e.kind = "request")
       IN CHOOSE computed \in
            {[clicks |-> [k \in 1..Len(is) |-> toMarker(es, ms, s, r, is[k], k - 1)],
              requests |-> [k \in 1..Len(rs) |-> toMarker(es, ms, s, r, rs[k], k - 1)],
              timeRangeMs |-> Some(r),
              startTs |-> Some(s),
              endTs |-> Some(e)] :
               es \in {events}, ms \in {maps}, s \in {startTs}, e \in {endTs},
               r \in {range}, is \in {interactions}, rs \in {requests}} : TRUE


(***************************************************************************)
(* generateMermaidFromTrace (utils/formatters.ts).  A line of the script   *)
(* is a sequence of tokens; the script is its lines joined by NL.          *)
(***************************************************************************)
MAX_LABEL_LENGTH == 140

\* the number of characters of a token; every token but the long path segment
\* is far shorter than MAX_LABEL_LENGTH
TokLen(token) == IF token = "/long-segment" THEN 200 ELSE 8

RECURSIVE TextLen(_)
TextLen(text) == IF text = <<>> THEN 0 ELSE TokLen(Head(text)) + TextLen(Tail(text))

\* truncate(text, length): the first length - 1 characters and an ellipsis
truncate(text, length) ==
  IF TextLen(text) <= length THEN text
  ELSE <<"first", length - 1, "characters of">> \o text \o <<"...">>

\* text.replace(/"/g, '\\"'); the quoted label is the one text holding quotes
sanitize(text) ==
  [i \in 1..Len(text) |->
     IF text[i] = "Say \"hi\"" THEN "Say \\\"hi\\\"" ELSE text[i]]

\* pathname.split('/').map(segment => segment.split(';')[0]).join('/')
stripMatrixParams(pathname) == SelectSeq(pathname, LAMBDA t : t # ";m=1")

RECURSIVE CollapseSlashes(_)
CollapseSlashes(pathname) ==
  IF Len(pathname) < 2 THEN pathname
  ELSE IF pathname[1] = "/" /\ pathname[2] \in SlashTokens
       THEN CollapseSlashes(Tail(pathname))
       ELSE <<Head(pathname)>> \o CollapseSlashes(Tail(pathname))

normalizePath(pathname) ==
  IF pathname = <<>> THEN <<"/">>
  ELSE LET normalized == CollapseSlashes(stripMatrixParams(pathname))
       IN IF normalized = <<>> THEN <<"/">> ELSE normalized

\* value.slice(0, value.search(/[?#]/))
BeforeQuery(value) ==
  IF \E i \in 1..Len(value) : value[i] = "?q"
  THEN SubSeq(value, 1, SetMin({i \in 1..Len(value) : value[i] = "?q"}) - 1)
  ELSE value

stripQueryAndFragment(value) ==
  IF value = <<>> THEN <<>> ELSE stripMatrixParams(BeforeQuery(value))

\* label.trim() and text.replace(/\s+/g, ' ').trim() on the labels of the model
TrimText(text) ==
  CASE text = "  " -> ""
    [] text = " Buy " -> "Buy"
    [] OTHER -> text

\* event.selector is absent in every event of the model
getDefaultClickLabel(event) ==
  LET base == TrimText(IF Truthy(event.text) THEN event.text
                       ELSE IF Truthy(event.label) THEN event.label
                       ELSE "Click")
  IN IF base # "" THEN base ELSE "Click"

getClickLabel(event) ==
  LET explicit == IF event.label # Undef THEN TrimText(event.label) ELSE ""
  IN IF explicit # "" THEN explicit ELSE getDefaultClickLabel(event)

\* new URL(value), else new URL(`https://${value}`): the host and the pathname,
\* Null when neither parses.  A host with a blank in it does not parse; a path
\* alone parses with its first segment as the host
safeUrl(url, path) ==
  IF UrlString(url) # <<>>
  THEN (IF "a b" \in Range(url.host) THEN Null
        ELSE Some([host |-> url.host, pathname |-> BeforeQuery(url.path)]))
  ELSE IF path # <<>> /\ Head(path) \in SlashTokens
  THEN Some([host |-> <<Unslash(Head(path))>> \o BeforeSlash(BeforeQuery(Tail(path))),
             pathname |-> SubSeq(BeforeQuery(Tail(path)),
                                 Len(BeforeSlash(BeforeQuery(Tail(path)))) + 1,
                                 Len(BeforeQuery(Tail(path))))])
  ELSE Some([host |-> BeforeSlash(path),
             pathname |-> SubSeq(BeforeQuery(path), Len(BeforeSlash(path)) + 1,
                                 Len(BeforeQuery(path)))])

TELEMETRY_HOST_PATTERNS == {"online-metrix", "doubleclick", "pixel"}
\* the path segments of the model that hold pixel, clear, beacon or collect
TELEMETRY_PATH_PATTERNS == {"/pixel", "/clear", "/beacon", "/collect"}

isTelemetryRequest(parsed) ==
  IF parsed.host = <<>> /\ parsed.pathname = <<>> THEN FALSE
  ELSE \/ \E i \in 1..Len(parsed.host) : parsed.host[i] \in TELEMETRY_HOST_PATTERNS
       \/ \E i \in 1..Len(parsed.pathname) : parsed.pathname[i] \in TELEMETRY_PATH_PATTERNS

formatPathWithParams(parsed, isTelemetry) ==
  LET pathname == normalizePath(parsed.pathname)
      label == IF isTelemetry THEN <<"Beacon ">> \o pathname ELSE pathname
  IN truncate(label, MAX_LABEL_LENGTH)

\* normalizeHost of formatters.ts
normalizeHostOrServer(host) == IF host = <<>> THEN <<"server">> ELSE normalizeHost(host)

isDataUrl(url) == url.scheme = "data:"

\* /^data:([^;,]+)/: the mime type is the text up to the first ; or , and the
\* mime types of the model are shorter than 40 characters
summarizeDataUrl(url) ==
  IF url.path # <<>> THEN <<"data:", Head(url.path)>>
  ELSE <<"data:", "embedded asset">>

\* formatRequestForMermaid asking for a response line for a data: URL as well
formatRequestAnsweringDataUrls(event) ==
  LET method == OrDefault(event.method, "GET")
      urlString == IF UrlString(event.url) # <<>> THEN UrlString(event.url) ELSE event.path
      parsed == safeUrl(event.url, event.path)
  IN IF urlString = <<>>
     THEN [host |-> <<"server">>, description |-> <<method, " request">>,
           skipResponse |-> FALSE]
     ELSE IF isDataUrl(event.url)
     THEN [host |-> <<"embedded_asset">>,
           description |-> <<method, " ">> \o summarizeDataUrl(event.url),
           skipResponse |-> FALSE]
     ELSE IF IsNull(parsed)
     THEN [host |-> <<"server">>,
           description |-> <<method, " ">>
             \o truncate(stripQueryAndFragment(urlString), MAX_LABEL_LENGTH),
           skipResponse |-> FALSE]
     ELSE [host |-> normalizeHostOrServer(parsed[1].host),
           description |-> <<method, " ">>
             \o formatPathWithParams(parsed[1], isTelemetryRequest(parsed[1])),
           skipResponse |-> FALSE]

\* RequestLine { host, description, skipResponse }
formatRequestForMermaid(event) ==
  LET method == OrDefault(event.method, "GET")
      urlString == IF UrlString(event.url) # <<>> THEN UrlString(event.url) ELSE event.path
      parsed == safeUrl(event.url, event.path)
  IN IF urlString = <<>>
     THEN [host |-> <<"server">>, description |-> <<method, " request">>,
           skipResponse |-> FALSE]
     ELSE IF isDataUrl(event.url)
     THEN [host |-> <<"embedded_asset">>,
           description |-> <<method, " ">> \o summarizeDataUrl(event.url),
           skipResponse |-> TRUE]
     ELSE IF IsNull(parsed)
     THEN [host |-> <<"server">>,
           description |-> <<method, " ">>
             \o truncate(stripQueryAndFragment(urlString), MAX_LABEL_LENGTH),
           skipResponse |-> FALSE]
     ELSE [host |-> normalizeHostOrServer(parsed[1].host),
           description |-> <<method, " ">>
             \o formatPathWithParams(parsed[1], isTelemetryRequest(parsed[1])),
           skipResponse |-> FALSE]

\* getClickHost taking no notice of the host of the click
getClickHostOfNoHost(event) == <<"WebApp">>

getClickHost(event) ==
  IF event.host # <<>> THEN normalizeHostOrServer(event.host) ELSE <<"WebApp">>

getClickTargetHost(event) ==
  IF /\ event.targetHost # <<>>
     /\ event.host # <<>>
     /\ normalizeHostOrServer(event.targetHost) # normalizeHostOrServer(event.host)
  THEN Some(normalizeHostOrServer(event.targetHost))
  ELSE Null

TransitionLabel(transitionType) ==
  CASE transitionType = "typed" -> "Navigate (typed)"
    [] transitionType = "reload" -> "Reload"
    [] transitionType = "link" -> "Navigate"
    [] transitionType = "auto_bookmark" -> "Navigate (bookmark)"
    [] transitionType = "form_submit" -> "Form Submit"
    [] transitionType = "back_forward" -> "Back/Forward"
    [] OTHER -> "Navigate"

\* the number of characters of the labels above and below
LabelLen(label) == IF label = "Navigate (bookmark)" THEN 19 ELSE 16

getNavigationLabel(event) ==
  LET label == TransitionLabel(OrDefault(event.transitionType, "navigate"))
  IN <<label, " ">>
     \o truncate(normalizePath(event.path), MAX_LABEL_LENGTH - LabelLen(label) - 1)

NavTypeLabel(navType) ==
  CASE navType = "pushState" -> "Route to"
    [] navType = "replaceState" -> "Replace route"
    [] navType = "popstate" -> "Back/Forward"
    [] navType = "hashchange" -> "Hash change"
    [] OTHER -> "Navigate"

getSpaNavigationLabel(event) ==
  LET label == NavTypeLabel(OrDefault(event.navigationType, "navigate"))
  IN <<label, " ">>
     \o truncate(normalizePath(event.path), MAX_LABEL_LENGTH - LabelLen(label) - 1)

\* the text of `${event.id}`
IdTokens(id) ==
  CASE id = "" -> <<>>
    [] id = " 7 " -> <<WS, "7", WS>>
    [] OTHER -> <<id>>

\* `  %%${event.id}` when event.id !== undefined
CommentLines(event) ==
  IF event.id # Undef THEN << <<WS, "%%">> \o IdTokens(event.id) >> ELSE <<>>

MessageLine(from, arrow, to, text) == <<WS>> \o from \o <<arrow>> \o to \o <<": ">> \o text

\* the body of events.forEach from position i on; st holds lines, hasOutput,
\* hasActiveInteraction and currentHost
RECURSIVE MermaidFrom(_, _, _)
MermaidFrom(events, i, st) ==
  IF i > Len(events) THEN st
  ELSE
    LET event == events[i]
    IN IF event.kind = "click"
       THEN LET clickHost == getClickHost(event)
                targetHost == getClickTargetHost(event)
                label == getClickLabel(event)
            IN MermaidFrom(events, i + 1,
                 [lines |-> st.lines \o CommentLines(event)
                      \o << MessageLine(<<"User">>, "->>", clickHost,
                                        <<"Click \"">> \o sanitize(<<label>>) \o <<"\"">>) >>
                      \o (IF ~IsNull(targetHost)
                          THEN << MessageLine(clickHost, "->>", targetHost[1], <<"Navigate">>) >>
                          ELSE <<>>),
                  hasOutput |-> TRUE,
                  hasActiveInteraction |-> TRUE,
                  currentHost |-> IF ~IsNull(targetHost) THEN targetHost[1] ELSE clickHost])
       ELSE IF event.kind = "navigation"
       THEN LET navHost == IF event.host # <<>> THEN normalizeHostOrServer(event.host)
                           ELSE <<"WebApp">>
                label == getNavigationLabel(event)
            IN MermaidFrom(events, i + 1,
                 [lines |-> st.lines \o CommentLines(event)
                      \o << MessageLine(<<"User">>, "->>",
                                        IF st.currentHost # navHost THEN navHost
                                        ELSE st.currentHost,
                                        sanitize(label)) >>,
                  hasOutput |-> TRUE,
                  hasActiveInteraction |-> TRUE,
                  currentHost |-> navHost])
       ELSE IF event.kind = "spa-navigation"
       THEN LET targetHost == IF event.host # <<>> THEN normalizeHostOrServer(event.host)
                              ELSE st.currentHost
                label == getSpaNavigationLabel(event)
            IN MermaidFrom(events, i + 1,
                 [lines |-> st.lines \o CommentLines(event)
                      \o << MessageLine(st.currentHost, "->>",
                                        IF st.currentHost # targetHost THEN targetHost
                                        ELSE st.currentHost,
                                        sanitize(label)) >>,
                  hasOutput |-> TRUE,
                  hasActiveInteraction |-> TRUE,
                  currentHost |-> targetHost])
       ELSE IF event.kind = "request" /\ st.hasActiveInteraction
       THEN LET requestLine == formatRequestForMermaid(event)
            IN MermaidFrom(events, i + 1,
                 [st EXCEPT
                    !.lines = st.lines \o CommentLines(event)
                      \o << MessageLine(st.currentHost, "->>", requestLine.host,
                                        requestLine.description) >>
                      \o (IF ~requestLine.skipResponse
                          THEN << MessageLine(requestLine.host, "-->>", st.currentHost,
                                    (IF event.status # NoNum THEN StatusString(event.status)
                                     ELSE <<"unknown">>)
                                    \o (IF TrimText(event.statusText) # ""
                                        THEN <<" ", TrimText(event.statusText)>>
                                        ELSE <<>>)) >>
                          ELSE <<>>),
                    !.hasOutput = TRUE])
       ELSE MermaidFrom(events, i + 1, st)

\* generateMermaidFromTrace with one note for every script without output
generateMermaidOneNote(events) ==
  LET header == << <<"sequenceDiagram">>, <<WS, "autonumber">> >>
      st == MermaidFrom(IF IsNull(events) THEN <<>> ELSE events[1], 1,
              [lines |-> header, hasOutput |-> FALSE,
               hasActiveInteraction |-> FALSE, currentHost |-> <<"WebApp">>])
  IN JoinLines(st.lines
       \o (IF ~st.hasOutput
           THEN << <<WS, "Note over User,WebApp: No events recorded">> >>
           ELSE <<>>))

\* generateMermaidFromTrace with the interaction gate open from the start
generateMermaidGateOpen(events) ==
  LET header == << <<"sequenceDiagram">>, <<WS, "autonumber">> >>
  IN IF IsNull(events) \/ events[1] = <<>>
     THEN JoinLines(header \o << <<WS, "Note over User,WebApp: No events recorded">> >>)
     ELSE
       LET st == MermaidFrom(events[1], 1,
                   [lines |-> header, hasOutput |-> FALSE,
                    hasActiveInteraction |-> TRUE, currentHost |-> <<"WebApp">>])
       IN JoinLines(st.lines
            \o (IF ~st.hasOutput
                THEN << <<WS, "Note over User,WebApp: No interaction events recorded">> >>
                ELSE <<>>))

\* events is nullable; the result is the text of the script
generateMermaidFromTrace(events) ==
  LET header == << <<"sequenceDiagram">>, <<WS, "autonumber">> >>
  IN IF IsNull(events) \/ events[1] = <<>>
     THEN JoinLines(header \o << <<WS, "Note over User,WebApp: No events recorded">> >>)
     ELSE
       LET st == MermaidFrom(events[1], 1,
                   [lines |-> header, hasOutput |-> FALSE,
                    hasActiveInteraction |-> FALSE, currentHost |-> <<"WebApp">>])
       IN JoinLines(st.lines
            \o (IF ~st.hasOutput
                THEN << <<WS, "Note over User,WebApp: No interaction events recorded">> >>
                ELSE <<>>))

(***************************************************************************)
(* buildSequenceTraceMap (components/DiagramPanel)                         *)
(***************************************************************************)
\* /-->>|--\>|->>|->|--x|--o/ tests true on a text holding one of these tokens
MESSAGE_LINE_TOKENS == {"-->>", "-->", "->>", "->", "--x", "--o", " -> "}

RECURSIVE SequenceFrom(_, _, _, _)
SequenceFrom(lines, pendingTrace, sequence, map) ==
  IF lines = <<>> THEN map
  ELSE
    LET line == Trim(Head(lines))
    IN IF line = <<>> THEN SequenceFrom(Tail(lines), pendingTrace, sequence, map)
       ELSE IF Head(line) = "%%"
       THEN LET traceId == Trim(Tail(line))
            IN SequenceFrom(Tail(lines),
                 IF traceId # <<>> THEN Some(traceId) ELSE Null, sequence, map)
       ELSE IF \A i \in 1..Len(line) : line[i] \notin MESSAGE_LINE_TOKENS
       THEN SequenceFrom(Tail(lines), pendingTrace, sequence, map)
       ELSE IF ~IsNull(pendingTrace)
       THEN SequenceFrom(Tail(lines), Null, sequence + 1,
              MapPut(map, sequence + 1, pendingTrace[1]))
       ELSE SequenceFrom(Tail(lines), pendingTrace, sequence + 1, map)

\* buildSequenceTraceMap keeping the pending trace id after it is used
RECURSIVE SequenceFromKeepingPending(_, _, _, _)
SequenceFromKeepingPending(lines, pendingTrace, sequence, map) ==
  IF lines = <<>> THEN map
  ELSE
    LET line == Trim(Head(lines))
    IN IF line = <<>> THEN SequenceFromKeepingPending(Tail(lines), pendingTrace, sequence, map)
       ELSE IF Head(line) = "%%"
       THEN LET traceId == Trim(Tail(line))
            IN SequenceFromKeepingPending(Tail(lines),
                 IF traceId # <<>> THEN Some(traceId) ELSE Null, sequence, map)
       ELSE IF \A i \in 1..Len(line) : line[i] \notin MESSAGE_LINE_TOKENS
       THEN SequenceFromKeepingPending(Tail(lines), pendingTrace, sequence, map)
       ELSE IF ~IsNull(pendingTrace)
       THEN SequenceFromKeepingPending(Tail(lines), pendingTrace, sequence + 1,
              MapPut(map, sequence + 1, pendingTrace[1]))
       ELSE SequenceFromKeepingPending(Tail(lines), pendingTrace, sequence + 1, map)

buildSequenceTraceMapKeepingPending(diagram) ==
  IF Trim(diagram) = <<>> THEN EmptyMap
  ELSE SequenceFromKeepingPending(SplitLines(diagram), Null, 0, EmptyMap)

buildSequenceTraceMap(diagram) ==
  IF Trim(diagram) = <<>> THEN EmptyMap
  ELSE SequenceFrom(SplitLines(diagram), Null, 0, EmptyMap)


(***************************************************************************)
(* The trace loader (App.tsx).                                             *)
(***************************************************************************)
\* crypto.randomUUID(): an id no file and no earlier call has; call is the
\* number of the handleTraceSelect call the backfill runs in
generateInternalId(seed, call) == 100 * call + seed + 1

\* ensureInternalIds giving every event a generated id, the ones that have
\* an id included
ensureInternalIdsAnew(trace, call) ==
  LET events == IF IsNull(trace.events) THEN <<>> ELSE trace.events[1]
  IN [trace EXCEPT !.events =
        Some([i \in 1..Len(events) |->
                [CloneEvent(events[i]) EXCEPT
                   !.jrInternalId = generateInternalId(i - 1, call)]])]

\* ensureInternalIds: an event with a jrInternalId is kept as the object it
\* is, any other is replaced by a copy with a generated id
ensureInternalIds(trace, call) ==
  LET events == IF IsNull(trace.events) THEN <<>> ELSE trace.events[1]
  IN [trace EXCEPT !.events =
        Some([i \in 1..Len(events) |->
                IF events[i].jrInternalId # 0 THEN events[i]
                ELSE [CloneEvent(events[i]) EXCEPT
                        !.jrInternalId = generateInternalId(i - 1, call)]])]

\* what JSON.parse and ensureInternalIds make of the text of a file: Null when
\* one of them throws.  json is "invalid" for a text that is no JSON, "null"
\* for the JSON null, "badEvents" for an object whose events is no array
ParseTrace(content, call) ==
  IF content.json \in {"invalid", "null", "badEvents"} THEN Null
  ELSE Some(ensureInternalIds([videoStartedAt |-> content.videoStartedAt,
                               events |-> content.events], call))

(***************************************************************************)
(* The memos of App: values derived from the state on every render.        *)
(***************************************************************************)
\* loadedTraceFile?.events ?? []
EventsOf(loaded) ==
  IF IsNull(loaded) \/ IsNull(loaded[1].events) THEN <<>> ELSE loaded[1].events[1]

LoadedEvents == EventsOf(loadedTraceFile)

manualEvents == applyEventOverridesToEvents(LoadedEvents, eventOverrides)

filterResult == applyTraceFilters(manualEvents, filterSettings)

\* the filteredTrace memo as a function of the state it depends on:
\* TraceFile | null, the events cloned
FilteredTraceOf(loaded, overrides, settings) ==
  IF IsNull(loaded) THEN Null
  ELSE LET result == applyTraceFilters(
                       applyEventOverridesToEvents(EventsOf(loaded), overrides), settings)
       IN Some([videoStartedAt |-> loaded[1].videoStartedAt,
                events |-> CHOOSE cloned \in
                             {[i \in 1..Len(kept) |-> CloneEvent(kept[i])] :
                                kept \in {result.filteredEvents}} : TRUE])

filteredTrace == FilteredTraceOf(loadedTraceFile, eventOverrides, filterSettings)

FilteredEvents == IF IsNull(filteredTrace) THEN <<>> ELSE filteredTrace[1].events

videoAnchorTs == IF IsNull(filteredTrace) THEN Null ELSE filteredTrace[1].videoStartedAt

\* the timeline memo as a function of the filtered trace and the duration:
\* computeTimeline(filteredTrace, filteredTrace?.videoStartedAt ?? null, videoDurationMs)
TimelineOf(filtered, durationMs) ==
  CHOOSE computed \in
    {computeTimeline(trace, IF IsNull(trace) THEN Null ELSE trace[1].videoStartedAt,
                     durationMs) : trace \in {filtered}} : TRUE

timeline == TimelineOf(filteredTrace, videoDurationMs)

generatedDiagram ==
  IF IsNull(filteredTrace) THEN <<>>
  ELSE generateMermaidFromTrace(Some(filteredTrace[1].events))

\* Map<jrInternalId, TraceEvent>: a later event replaces an earlier one
RECURSIVE OriginalsFrom(_, _)
OriginalsFrom(events, map) ==
  IF events = <<>> THEN map
  ELSE OriginalsFrom(Tail(events),
         IF Head(events).jrInternalId # 0
         THEN MapPut(map, Head(events).jrInternalId, Head(events)) ELSE map)

originalEventMap == OriginalsFrom(LoadedEvents, EmptyMap)

\* originalEventMap.get(internalId)?.label ?? ''
OriginalLabel(internalId) ==
  IF HasKey(originalEventMap, internalId) /\ originalEventMap[internalId].label # Undef
  THEN originalEventMap[internalId].label
  ELSE ""

removedEvents ==
  SelectSeq(LoadedEvents,
            LAMBDA event : /\ event.jrInternalId # 0
                           /\ HasKey(eventOverrides, event.jrInternalId)
                           /\ eventOverrides[event.jrInternalId].removed)

\* Array.prototype.sort by timestamp, which is stable: the marker at position
\* i goes after the markers of a lower timestamp and the earlier markers of
\* the same timestamp
SortByTimestamp(markers) ==
  LET rank(i) == Cardinality({j \in 1..Len(markers) :
                               \/ markers[j].timestamp < markers[i].timestamp
                               \/ markers[j].timestamp = markers[i].timestamp /\ j < i})
  IN [k \in 1..Len(markers) |->
        markers[CHOOSE i \in 1..Len(markers) : rank(i) = k - 1]]

CombinedMarkersOf(computed) ==
  CHOOSE sorted \in
    {SortByTimestamp(markers) :
       markers \in {SelectSeq(t.clicks \o t.requests,
                              LAMBDA marker : marker.timestamp # NoNum) : t \in {computed}}} :
    TRUE

combinedMarkers == CombinedMarkersOf(timeline)

allFilesLoaded == ~IsNull(video) /\ ~IsNull(loadedTraceFile)

\* what handleMarkerSelect sets; the position of the video player is not
\* part of the state of App
SetActiveMarker(id, marker) ==
  /\ activeMarkerId' = id
  /\ activeMarker' = Some(marker)
  /\ activeTraceId' = marker.traceId
  /\ activeTraceColor' = marker.color

\* The two marker effects of App, run on the render that follows a handler
\* which left the marker state (id, marker, traceId, color): the effect that
\* refreshes the active marker from the marker of the same id, and the effect
\* that selects the first marker when both files are loaded and no marker of
\* the timeline is active.
RunMarkerEffects(id, marker, traceId, color) ==
  \E markers \in {CombinedMarkersOf(TimelineOf(
                     FilteredTraceOf(loadedTraceFile', eventOverrides', filterSettings'),
                     videoDurationMs'))} :
    \E updated \in {IF IsNull(id) THEN <<>>
                     ELSE SelectSeq(markers, LAMBDA m : m.id = id[1])} :
      IF updated # <<>> THEN SetActiveMarker(id, updated[1])
      ELSE IF allFilesLoaded' /\ markers # <<>>
           THEN SetActiveMarker(Some(markers[1].id), markers[1])
      ELSE /\ activeMarkerId' = id
           /\ activeMarker' = marker
           /\ activeTraceId' = traceId
           /\ activeTraceColor' = color

(***************************************************************************)
(* The handlers of App.  Each is the whole handler: the state it sets and  *)
(* the state it leaves alone.                                              *)
(***************************************************************************)
LOAD_ERROR == "Unable to parse the trace JSON file."

\* handleTraceSelect up to its await: the read of the file is in flight
handleTraceSelect(file) ==
  /\ loadCount < MaxLoads
  /\ isLoadingTrace' = TRUE
  /\ loadCount' = loadCount + 1
  /\ pendingReads' = pendingReads \cup {[call |-> loadCount + 1, file |-> file]}
  /\ UNCHANGED <<loadedTraceFile, fileNames, fileError, eventOverrides, filterSettings,
                 video, videoDurationMs, markerVars, fnArgs, fnResult, diagramPanel>>

\* handleTraceSelect after its await: the try block, or the catch block when
\* JSON.parse or ensureInternalIds throws, and the finally block
handleTraceSelectSettled(read) ==
  LET normalized == ParseTrace(read.file.content, read.call)
  IN /\ read \in pendingReads
     /\ pendingReads' = pendingReads \ {read}
     /\ IF ~IsNull(normalized)
        THEN /\ loadedTraceFile' = normalized
             /\ fileNames' = [fileNames EXCEPT !.trace = read.file.name]
             /\ fileError' = Null
             /\ eventOverrides' = EmptyMap
             /\ filterSettings' = createDefaultFilterSettings
        ELSE /\ loadedTraceFile' = Null
             /\ eventOverrides' = EmptyMap
             /\ fileError' = Some(LOAD_ERROR)
             /\ UNCHANGED <<fileNames, filterSettings>>
     /\ isLoadingTrace' = FALSE
     /\ UNCHANGED <<video, videoDurationMs, loadCount, fnArgs, fnResult, diagramPanel>>
     /\ IF ~IsNull(normalized)
        THEN RunMarkerEffects(Null, Null, Undef, Undef)
        ELSE RunMarkerEffects(activeMarkerId, activeMarker, activeTraceId, activeTraceColor)

handleVideoSelect(file) ==
  /\ video' = Some([url |-> <<"blob:", file.name>>, name |-> file.name])
  /\ fileNames' = [fileNames EXCEPT !.video = file.name]
  /\ videoDurationMs' = Null
  /\ UNCHANGED <<loadedTraceFile, fileError, eventOverrides, filterSettings,
                 isLoadingTrace, pendingReads, loadCount, fnArgs, fnResult, diagramPanel>>
  /\ RunMarkerEffects(activeMarkerId, activeMarker, activeTraceId, activeTraceColor)

\* the player reports the duration of the selected video
handleDuration(durationMs) ==
  /\ ~IsNull(video)
  /\ videoDurationMs' = Some(durationMs)
  /\ UNCHANGED <<loadedTraceFile, fileNames, fileError, eventOverrides, filterSettings,
                 video, isLoadingTrace, pendingReads, loadCount, fnArgs, fnResult, diagramPanel>>
  /\ RunMarkerEffects(activeMarkerId, activeMarker, activeTraceId, activeTraceColor)

\* prev[internalId]; Null is undefined
CurrentOverride(prev, internalId) ==
  IF HasKey(prev, internalId) THEN Some(prev[internalId]) ELSE Null

\* { ...current, label } and { ...current, removed: true }
SpreadOverride(current) == IF IsNull(current) THEN Override(Undef, FALSE) ELSE current[1]

\* the updater updateEventLabel gives to setEventOverrides
UpdatedLabel(prev, internalId, nextLabel) ==
  LET originalLabel == OriginalLabel(internalId)
      current == CurrentOverride(prev, internalId)
  IN IF nextLabel = originalLabel
     THEN IF ~IsNull(current) /\ current[1].removed
          THEN IF current[1].label = Undef THEN prev
               ELSE MapPut(prev, internalId, Override(Undef, TRUE))
          ELSE IF ~HasKey(prev, internalId) THEN prev
          ELSE MapOmit(prev, internalId)
     ELSE MapPut(prev, internalId, [SpreadOverride(current) EXCEPT !.label = nextLabel])

updateEventLabel(event, nextLabel) ==
  /\ eventOverrides' = IF event.jrInternalId = 0 THEN eventOverrides
                       ELSE UpdatedLabel(eventOverrides, event.jrInternalId, nextLabel)
  /\ UNCHANGED <<loadedTraceFile, fileNames, fileError, filterSettings, video,
                 videoDurationMs, isLoadingTrace, pendingReads, loadCount, fnArgs, fnResult, diagramPanel>>
  /\ RunMarkerEffects(activeMarkerId, activeMarker, activeTraceId, activeTraceColor)

\* what toggleEventRemoval(event, false) and restoreEventByInternalId do to an
\* entry: the label edit is kept when current.label is truthy and differs
\* from the original label, the entry is dropped otherwise
Restored(prev, internalId) ==
  LET current == CurrentOverride(prev, internalId)
  IN IF /\ ~IsNull(current)
        /\ Truthy(current[1].label)
        /\ current[1].label # OriginalLabel(internalId)
     THEN MapPut(prev, internalId, Override(current[1].label, FALSE))
     ELSE IF ~HasKey(prev, internalId) THEN prev
     ELSE MapOmit(prev, internalId)

\* the updater toggleEventRemoval gives to setEventOverrides
ToggledRemoval(prev, internalId, removed) ==
  LET current == CurrentOverride(prev, internalId)
  IN IF removed
     THEN IF ~IsNull(current) /\ current[1].removed THEN prev
          ELSE MapPut(prev, internalId, [SpreadOverride(current) EXCEPT !.removed = TRUE])
     ELSE Restored(prev, internalId)

toggleEventRemoval(event, removed) ==
  /\ eventOverrides' = IF event.jrInternalId = 0 THEN eventOverrides
                       ELSE ToggledRemoval(eventOverrides, event.jrInternalId, removed)
  /\ UNCHANGED <<loadedTraceFile, fileNames, fileError, filterSettings, video,
                 videoDurationMs, isLoadingTrace, pendingReads, loadCount, fnArgs, fnResult, diagramPanel>>
  /\ RunMarkerEffects(activeMarkerId, activeMarker, activeTraceId, activeTraceColor)

\* resetEventChanges running the id backfill again on the loaded trace
resetEventChangesAndIds(event) ==
  /\ eventOverrides' = IF event.jrInternalId = 0 \/ ~HasKey(eventOverrides, event.jrInternalId)
                       THEN eventOverrides
                       ELSE MapOmit(eventOverrides, event.jrInternalId)
  /\ loadedTraceFile' =
       Some([loadedTraceFile[1] EXCEPT !.events =
               Some([i \in 1..Len(LoadedEvents) |->
                       [CloneEvent(LoadedEvents[i]) EXCEPT
                          !.jrInternalId = generateInternalId(i - 1, loadCount + 1)]])])
  /\ UNCHANGED <<fileNames, fileError, filterSettings, video,
                 videoDurationMs, isLoadingTrace, pendingReads, loadCount, fnArgs, fnResult, diagramPanel>>
  /\ RunMarkerEffects(activeMarkerId, activeMarker, activeTraceId, activeTraceColor)

resetEventChanges(event) ==
  /\ eventOverrides' = IF event.jrInternalId = 0 \/ ~HasKey(eventOverrides, event.jrInternalId)
                       THEN eventOverrides
                       ELSE MapOmit(eventOverrides, event.jrInternalId)
  /\ UNCHANGED <<loadedTraceFile, fileNames, fileError, filterSettings, video,
                 videoDurationMs, isLoadingTrace, pendingReads, loadCount, fnArgs, fnResult, diagramPanel>>
  /\ RunMarkerEffects(activeMarkerId, activeMarker, activeTraceId, activeTraceColor)

restoreEventByInternalId(internalId) ==
  /\ eventOverrides' = IF ~HasKey(eventOverrides, internalId) THEN eventOverrides
                       ELSE Restored(eventOverrides, internalId)
  /\ UNCHANGED <<loadedTraceFile, fileNames, fileError, filterSettings, video,
                 videoDurationMs, isLoadingTrace, pendingReads, loadCount, fnArgs, fnResult, diagramPanel>>
  /\ RunMarkerEffects(activeMarkerId, activeMarker, activeTraceId, activeTraceColor)

handleMarkerSelect(marker) ==
  /\ UNCHANGED <<loadedTraceFile, fileNames, fileError, eventOverrides, filterSettings,
                 video, videoDurationMs, isLoadingTrace, pendingReads, loadCount,
                 fnArgs, fnResult, diagramPanel>>
  /\ RunMarkerEffects(Some(marker.id), Some(marker), marker.traceId, marker.color)

handleResetFilters ==
  /\ filterSettings' = createDefaultFilterSettings
  /\ UNCHANGED <<loadedTraceFile, fileNames, fileError, eventOverrides, video,
                 videoDurationMs, isLoadingTrace, pendingReads, loadCount, fnArgs, fnResult, diagramPanel>>
  /\ RunMarkerEffects(activeMarkerId, activeMarker, activeTraceId, activeTraceColor)

handleUpdateFilterSettings(updater) ==
  /\ filterSettings' = updater
  /\ UNCHANGED <<loadedTraceFile, fileNames, fileError, eventOverrides, video,
                 videoDurationMs, isLoadingTrace, pendingReads, loadCount, fnArgs, fnResult, diagramPanel>>
  /\ RunMarkerEffects(activeMarkerId, activeMarker, activeTraceId, activeTraceColor)

(***************************************************************************)
(* Inputs of the pure functions: event lists of at most MaxEvents events   *)
(* drawn from a pool, each event a distinct object.                        *)
(***************************************************************************)
SeqsUpTo(S, n) == UNION {[1..k -> S] : k \in 0..n}

WithRefs(events) == [i \in 1..Len(events) |-> [events[i] EXCEPT !.ref = NewRef(i)]]

Url(scheme, host, path) == [scheme |-> scheme, host |-> host, path |-> path]

Request(url, method, status) ==
  [BlankEvent EXCEPT !.kind = "request", !.url = url, !.method = method, !.status = status]

(***************************************************************************)
(* Specification SpecFilters: applyTraceFilters on every event list and    *)
(* every settings value of the pools below.                                *)
(***************************************************************************)
MaxFilterEvents == 2

FilterEventPool ==
  { Request(Url("https://", <<"x.com">>, <<"/a", ".png">>), "GET", 200),
    Request(Url("https://", <<"x.com">>, <<"/a", ".PNG">>), "GET", 304),
    Request(Url("https://", <<"x.com">>, <<"/b">>), "OPTIONS", 200),
    [Request(NoUrl, "", NoNum) EXCEPT !.path = <<"/a", ".png">>],
    Request(NoUrl, "", NoNum),
    [BlankEvent EXCEPT !.kind = "click", !.path = <<"/a", ".png">>] }

CustomTextPool ==
  { <<>>,
    <<"\\.png", "$">>,
    <<"/", "\\.png", "/", "g">>,
    <<"(", NL, WS, "status:", WS, "304", WS>>,
    <<WS, NL, "(">> }

GroupTextPool ==
  { <<"\\.png", "$">>,
    <<"/", "\\.png", "/", "g">>,
    <<"method:", "^", "OPTIONS", "$", NL, "/", "/a", "/", "y">>,
    <<"(">>,
    <<"(", NL, "method:", "^", "OPTIONS", "$">> }

FilterSettingsPool ==
  { [applyFilters |-> on, customRegexText |-> custom,
     groups |-> << [id |-> "static-assets", label |-> "Static assets",
                    enabled |-> e1, patternsText |-> t1],
                   [id |-> "preflight", label |-> "CORS preflight & cached",
                    enabled |-> TRUE, patternsText |-> t2] >>] :
      on \in BOOLEAN, custom \in CustomTextPool, e1 \in BOOLEAN,
      t1 \in GroupTextPool, t2 \in GroupTextPool }

\* DiagramPanel as mounted: no diagram, nothing rendered, no render under way
InitialPanel ==
  [diagram |-> <<>>, activeTraceId |-> Undef, renderError |-> Null,
   innerHTML |-> Null, renders |-> {}]

InitApp ==
  /\ diagramPanel = InitialPanel
  /\ loadedTraceFile = Null
  /\ fileNames = [video |-> Undef, trace |-> Undef]
  /\ fileError = Null
  /\ eventOverrides = EmptyMap
  /\ filterSettings = createDefaultFilterSettings
  /\ video = Null
  /\ videoDurationMs = Null
  /\ isLoadingTrace = FALSE
  /\ pendingReads = {}
  /\ loadCount = 0
  /\ activeMarkerId = Null
  /\ activeMarker = Null
  /\ activeTraceId = Undef
  /\ activeTraceColor = Undef

InitFilters ==
  /\ InitApp
  /\ fnArgs \in { [events |-> WithRefs(events), settings |-> settings] :
                    events \in SeqsUpTo(FilterEventPool, MaxFilterEvents),
                    settings \in FilterSettingsPool }
  /\ fnResult = Null

CallApplyTraceFilters ==
  /\ fnResult = Null
  /\ fnResult' = Some(applyTraceFilters(fnArgs.events, fnArgs.settings))
  /\ UNCHANGED <<appVars, fnArgs, diagramPanel>>

SpecFilters == InitFilters /\ [][CallApplyTraceFilters]_vars

(***************************************************************************)
(* Specification SpecDerive: one render of the derived data.  The memos of *)
(* App run in the order timeline, generatedDiagram, and DiagramPanel then  *)
(* builds its sequenceTraceMap from the script.  The event list is any     *)
(* list of the pool below; as after a load every event has a jrInternalId, *)
(* and as ensureInternalIds keeps the ids a file brings, two events may    *)
(* carry the same one.                                                     *)
(***************************************************************************)
MaxDeriveEvents == 3

DeriveEventPool ==
  { [BlankEvent EXCEPT !.kind = "click", !.id = "1", !.label = "Buy",
       !.host = <<"app", "com">>, !.targetHost = <<"www", "app", "com">>, !.ts = 1000],
    [BlankEvent EXCEPT !.kind = "click", !.text = " Buy ",
       !.host = <<"www", "app", "com">>, !.targetHost = <<"shop", "com">>, !.ts = 2000],
    [BlankEvent EXCEPT !.kind = "click", !.text = "Pay", !.targetHost = <<"shop", "com">>],
    [BlankEvent EXCEPT !.kind = "navigation", !.id = "2", !.host = <<"shop", "com">>,
       !.path = <<"/a">>, !.transitionType = "typed"],
    [BlankEvent EXCEPT !.kind = "spa-navigation", !.id = "", !.path = <<"/", "/b", ";m=1">>,
       !.navigationType = "pushState", !.ts = 1500],
    [Request(Url("https://", <<"api", "app", "com">>, <<"/a">>), "GET", 200)
       EXCEPT !.id = "3", !.statusText = "OK", !.ts = 1200],
    [Request(Url("data:", <<>>, <<"image/png", ";base64">>), "", NoNum) EXCEPT !.id = " 7 "],
    Request(NoUrl, "", NoNum),
    [BlankEvent EXCEPT !.kind = "scroll", !.id = "5"] }

\* the jrInternalId of the event at each position: its own, or that of an
\* earlier event
IdAssignments(n) ==
  {[i \in 1..n |-> i]}
    \cup {[i \in 1..n |-> IF i = pair[2] THEN pair[1] ELSE i] :
            pair \in {q \in (1..n) \X (1..n) : q[1] < q[2]}}

WithIds(events, ids) ==
  [i \in 1..Len(events) |-> [events[i] EXCEPT !.ref = NewRef(i), !.jrInternalId = ids[i]]]

\* videoAnchorMs and videoDurationMs
VideoPool ==
  { [anchorMs |-> Null, durationMs |-> Null],
    [anchorMs |-> Null, durationMs |-> Some(500)],
    [anchorMs |-> Some(1100), durationMs |-> Null],
    [anchorMs |-> Some(1100), durationMs |-> Some(500)] }

NoDerived == [timeline |-> Null, diagram |-> Null, sequenceTraceMap |-> Null]

\* a journey of two clicks on app.com with two requests to api.app.com in
\* between, recorded with the video started at the first click; the file
\* brings no jrInternalId, the load gives each event its own
ExampleTrace ==
  WithIds(<< [BlankEvent EXCEPT !.kind = "click", !.host = <<"app", "com">>, !.ts = 1000],
             [Request(Url("https://", <<"api", "app", "com">>, <<"/a">>), "GET", 200)
                EXCEPT !.ts = 1050],
             [Request(Url("https://", <<"api", "app", "com">>, <<"/b">>), "GET", 200)
                EXCEPT !.ts = 1200],
             [BlankEvent EXCEPT !.kind = "click", !.host = <<"app", "com">>, !.ts = 2000] >>,
          [i \in 1..4 |-> generateInternalId(i - 1, 1)])

ExampleArgs == [events |-> ExampleTrace, anchorMs |-> Some(1000), durationMs |-> Null]

InitDerive ==
  /\ InitApp
  /\ \/ \E events \in SeqsUpTo(DeriveEventPool, MaxDeriveEvents) :
          \E ids \in IdAssignments(Len(events)), v \in VideoPool :
            fnArgs = [events |-> WithIds(events, ids),
                      anchorMs |-> v.anchorMs, durationMs |-> v.durationMs]
     \/ fnArgs = ExampleArgs
  /\ fnResult = NoDerived

CallComputeTimeline ==
  /\ fnResult.timeline = Null
  /\ fnResult' = [fnResult EXCEPT !.timeline =
                    Some(computeTimeline(Some([events |-> fnArgs.events]),
                                         fnArgs.anchorMs, fnArgs.durationMs))]
  /\ UNCHANGED <<appVars, fnArgs, diagramPanel>>

CallGenerateMermaidFromTrace ==
  /\ fnResult.timeline # Null
  /\ fnResult.diagram = Null
  /\ fnResult' = [fnResult EXCEPT !.diagram =
                    Some(generateMermaidFromTrace(Some(fnArgs.events)))]
  /\ UNCHANGED <<appVars, fnArgs, diagramPanel>>

CallBuildSequenceTraceMap ==
  /\ fnResult.diagram # Null
  /\ fnResult.sequenceTraceMap = Null
  /\ fnResult' = [fnResult EXCEPT !.sequenceTraceMap =
                    Some(buildSequenceTraceMap(fnResult.diagram[1]))]
  /\ UNCHANGED <<appVars, fnArgs, diagramPanel>>

NextDerive ==
  \/ CallComputeTimeline
  \/ CallGenerateMermaidFromTrace
  \/ CallBuildSequenceTraceMap

SpecDerive == InitDerive /\ [][NextDerive]_vars

(***************************************************************************)
(* Specification Spec: the App component.  The user picks trace files of   *)
(* the catalog below and video files, edits and removes the events shown   *)
(* on the timeline, restores removed events and changes the filters, in    *)
(* any order; the reads of the selected files settle in any order.         *)
(***************************************************************************)
TraceContent(json, videoStartedAt, events) ==
  [json |-> json, videoStartedAt |-> videoStartedAt, events |-> events]

TraceFilePool ==
  { [name |-> "broken.json", content |-> TraceContent("invalid", Null, Null)],
    [name |-> "a.json",
     content |-> TraceContent("object", Some(1100), Some(WithRefs(<<
       [BlankEvent EXCEPT !.kind = "click", !.id = "1", !.label = "Buy",
          !.host = <<"app", "com">>, !.ts = 1000],
       [Request(Url("https://", <<"api", "app", "com">>, <<"/a">>), "GET", 200)
          EXCEPT !.id = "2", !.ts = 1300] >>)))],
    [name |-> "b.json",
     content |-> TraceContent("object", Null, Some(WithIds(<<
       Request(Url("https://", <<"x.com">>, <<"/a", ".png">>), "GET", 200),
       [BlankEvent EXCEPT !.kind = "click", !.text = " Buy ",
          !.host = <<"www", "app", "com">>, !.targetHost = <<"shop", "com">>] >>,
       <<1, 1>>)))] }

VideoFilePool == { [name |-> "session.webm"] }
DurationPool == { 500 }
LabelPool == { "", "Pay" }

\* the settings the filter panel can make of the current ones: the master
\* switch toggled
SettingsUpdates(settings) ==
  { [settings EXCEPT !.applyFilters = ~settings.applyFilters] }

Init ==
  /\ InitApp
  /\ fnArgs = Null
  /\ fnResult = Null

\* the event the journey panel edits: the event of the active marker
ActiveEvents == IF IsNull(activeMarker) THEN {} ELSE {activeMarker[1].event}

\* getOverrideForEvent(event)?.removed ?? false
isRemoved(event) ==
  /\ event.jrInternalId # 0
  /\ HasKey(eventOverrides, event.jrInternalId)
  /\ eventOverrides[event.jrInternalId].removed

Next ==
  \/ \E file \in TraceFilePool :
       Cardinality(pendingReads) < MaxPending /\ handleTraceSelect(file)
  \/ \E read \in pendingReads : handleTraceSelectSettled(read)
  \/ \E file \in VideoFilePool : handleVideoSelect(file)
  \/ \E durationMs \in DurationPool : handleDuration(durationMs)
  \/ \E marker \in Range(timeline.clicks) \cup Range(timeline.requests) :
       handleMarkerSelect(marker)
  \/ \E event \in ActiveEvents :
       \/ \E nextLabel \in LabelPool : updateEventLabel(event, nextLabel)
       \/ toggleEventRemoval(event, ~isRemoved(event))
       \/ resetEventChanges(event)
  \/ \E event \in Range(removedEvents) : restoreEventByInternalId(event.jrInternalId)
  \/ handleResetFilters
  \/ \E updater \in SettingsUpdates(filterSettings) : handleUpdateFilterSettings(updater)

Spec == Init /\ [][Next]_vars

(***************************************************************************)
(* Specification SpecOverrides: applyEventOverridesToEvents on every event *)
(* list and every override map of the pools below.  As after a load, every *)
(* event has a jrInternalId, and two events may carry the same one.        *)
(***************************************************************************)
OverrideEventPool ==
  { [BlankEvent EXCEPT !.kind = "click", !.label = "Buy"],
    [BlankEvent EXCEPT !.kind = "click"],
    Request(Url("https://", <<"api", "app", "com">>, <<"/a">>), "GET", 200) }

OverridePool == { Override(label, removed) : label \in {Undef, "Buy"}, removed \in BOOLEAN }

\* the maps from some of the ids 1..n to overrides
OverrideMaps(n) ==
  UNION { [keys -> OverridePool] : keys \in SUBSET (1..n) }

InitOverrides ==
  /\ InitApp
  /\ \E events \in SeqsUpTo(OverrideEventPool, MaxEvents) :
       \E ids \in IdAssignments(Len(events)), overrides \in OverrideMaps(Len(events)) :
         fnArgs = [events |-> WithIds(events, ids), overrides |-> overrides]
  /\ fnResult = Null

CallApplyEventOverridesToEvents ==
  /\ fnResult = Null
  /\ fnResult' = Some(applyEventOverridesToEvents(fnArgs.events, fnArgs.overrides))
  /\ UNCHANGED <<appVars, fnArgs, diagramPanel>>

SpecOverrides == InitOverrides /\ [][CallApplyEventOverridesToEvents]_vars

(***************************************************************************)
(* Specification SpecExport: a trace file is loaded, edited and filtered,  *)
(* the filtered trace is downloaded, and the downloaded file is loaded     *)
(* again with the filters switched off and no override.  The events of the *)
(* first file carry a jrInternalId of their own or none.                   *)
(***************************************************************************)
MaxExportEvents == 2

\* JSON.stringify of an event: the text holds the fields of the object, not
\* the object
JsonEvent(event) == [field \in (DOMAIN event) \ {"ref"} |-> event[field]]

\* JSON.stringify(filteredTrace, null, 2)
JsonStringify(trace) ==
  [json |-> "object",
   videoStartedAt |-> trace.videoStartedAt,
   events |-> IF IsNull(trace.events) THEN Null
              ELSE Some([i \in 1..Len(trace.events[1]) |-> JsonEvent(trace.events[1][i])])]

\* JSON.parse of the text of a file: every event of the text is a new object
JsonParse(text) ==
  [text EXCEPT !.events =
     IF IsNull(text.events) THEN Null
     ELSE Some([i \in 1..Len(text.events[1]) |->
                  [field \in (DOMAIN text.events[1][i]) \cup {"ref"} |->
                     IF field = "ref" THEN NewRef(i) ELSE text.events[1][i][field]]])]

\* handleDownloadFilteredTrace downloading the loaded trace in place of the
\* filtered one
DownloadedFileOfLoaded(filtered, traceName) ==
  IF IsNull(filtered) THEN Null
  ELSE Some([name |-> <<traceName, "-filtered.json">>,
             content |-> JsonStringify(loadedTraceFile[1])])

\* the file handleDownloadFilteredTrace hands to the browser: none when no
\* trace is loaded
DownloadedFile(filtered, traceName) ==
  IF IsNull(filtered) THEN Null
  ELSE Some([name |-> <<traceName, "-filtered.json">>,
             content |-> JsonStringify([videoStartedAt |-> filtered[1].videoStartedAt,
                                        events |-> Some(filtered[1].events)])])

ExportEventPool ==
  { [BlankEvent EXCEPT !.kind = "click", !.label = "Buy", !.ts = 1000],
    Request(Url("https://", <<"api", "app", "com">>, <<"/a">>), "GET", 200),
    Request(Url("https://", <<"x.com">>, <<"/a", ".png">>), "GET", 200) }

\* the filters the user leaves on or switches off before the download
ExportSettingsPool ==
  { [createDefaultFilterSettings EXCEPT !.applyFilters = on] : on \in BOOLEAN }

FiltersOff == [createDefaultFilterSettings EXCEPT !.applyFilters = FALSE]

InitExport ==
  /\ \E events \in SeqsUpTo(ExportEventPool, MaxExportEvents) :
       \E ids \in [1..Len(events) -> 0..2] :
         loadedTraceFile =
           ParseTrace(TraceContent("object", Some(1100), Some(WithIds(events, ids))), 1)
  /\ \E overrides \in OverrideMaps(2) : eventOverrides = overrides
  /\ \E settings \in ExportSettingsPool : filterSettings = settings
  /\ fileNames = [video |-> Undef, trace |-> "a"]
  /\ fileError = Null
  /\ video = Null
  /\ videoDurationMs = Null
  /\ isLoadingTrace = FALSE
  /\ pendingReads = {}
  /\ loadCount = 1
  /\ diagramPanel = InitialPanel
  /\ activeMarkerId = Null
  /\ activeMarker = Null
  /\ activeTraceId = Undef
  /\ activeTraceColor = Undef
  /\ fnArgs = Null
  /\ fnResult = Null

\* the download: fnArgs keeps the event list the user exported, fnResult the file
handleDownloadFilteredTrace ==
  /\ fnResult = Null
  /\ fnArgs' = Some(FilteredEvents)
  /\ fnResult' = DownloadedFile(filteredTrace, fileNames.trace)
  /\ UNCHANGED <<appVars, diagramPanel>>

\* the downloaded file selected and read, then the filters switched off
ReloadDownloadedFile ==
  /\ fnResult # Null
  /\ loadCount = 1
  /\ loadedTraceFile' = ParseTrace(JsonParse(fnResult[1].content), 2)
  /\ loadCount' = 2
  /\ fileNames' = [fileNames EXCEPT !.trace = fnResult[1].name]
  /\ eventOverrides' = EmptyMap
  /\ filterSettings' = FiltersOff
  /\ UNCHANGED <<fileError, video, videoDurationMs, isLoadingTrace, pendingReads,
                 markerVars, fnArgs, fnResult, diagramPanel>>

NextExport == handleDownloadFilteredTrace \/ ReloadDownloadedFile

SpecExport == InitExport /\ [][NextExport]_vars

(***************************************************************************)
(* Specification SpecBackfill: ensureInternalIds on a parsed trace, then   *)
(* on its own result.  An event of the parsed trace has a jrInternalId of  *)
(* the file or none (0), and the trace may have no events array.           *)
(***************************************************************************)
BackfillEventPool ==
  { [BlankEvent EXCEPT !.kind = "click", !.label = "Buy"],
    Request(Url("https://", <<"api", "app", "com">>, <<"/a">>), "GET", 200) }

BackfillTracePool ==
  { [videoStartedAt |-> Null, events |-> Null] }
    \cup UNION { { [videoStartedAt |-> Some(1100), events |-> Some(WithIds(events, ids))] :
                     ids \in [1..Len(events) -> 0..2] } :
                   events \in SeqsUpTo(BackfillEventPool, MaxEvents) }

InitBackfill ==
  /\ InitApp
  /\ \E trace \in BackfillTracePool : fnArgs = trace
  /\ fnResult = [once |-> Null, twice |-> Null]

CallEnsureInternalIds ==
  /\ fnResult.once = Null
  /\ fnResult' = [fnResult EXCEPT !.once = Some(ensureInternalIds(fnArgs, 1))]
  /\ UNCHANGED <<appVars, fnArgs, diagramPanel>>

CallEnsureInternalIdsAgain ==
  /\ fnResult.once # Null
  /\ fnResult.twice = Null
  /\ fnResult' = [fnResult EXCEPT !.twice = Some(ensureInternalIds(fnResult.once[1], 2))]
  /\ UNCHANGED <<appVars, fnArgs, diagramPanel>>

NextBackfill == CallEnsureInternalIds \/ CallEnsureInternalIdsAgain

SpecBackfill == InitBackfill /\ [][NextBackfill]_vars

(***************************************************************************)
(* Claims about applyTraceFilters, under SpecFilters.                      *)
(***************************************************************************)
FilterDone == fnResult # Null

\* a rule matches an event when the event has the rule's field and a regex with
\* the rule's source and flags, used for nothing else, tests true on it
RuleMatchesEvent(rule, event) ==
  LET value == getEventFieldByTarget(event, rule.target)
  IN value # <<>> /\ RegExpTest(rule.regex, value, 0).matched

RulesMatchEvent(rules, event) ==
  \E r \in 1..Len(rules) : RuleMatchesEvent(rules[r], event)

\* the groups in declaration order, the custom group last, each with the rules
\* that are in force (none for a disabled group)
DeclaredGroups(settings) ==
  [g \in 1..(Len(settings.groups) + 1) |->
     IF g <= Len(settings.groups)
     THEN [id |-> settings.groups[g].id,
           rules |-> IF settings.groups[g].enabled
                     THEN parseRulesFromText(settings.groups[g].patternsText)
                     ELSE <<>>]
     ELSE [id |-> "custom", rules |-> parseRulesFromText(settings.customRegexText)]]

ActiveRulesMatch(settings, event) ==
  /\ settings.applyFilters
  /\ \E g \in 1..Len(DeclaredGroups(settings)) :
       RulesMatchEvent(DeclaredGroups(settings)[g].rules, event)

EarliestMatchingGroup(settings, event, g) ==
  /\ RulesMatchEvent(DeclaredGroups(settings)[g].rules, event)
  /\ \A h \in 1..(g - 1) : ~RulesMatchEvent(DeclaredGroups(settings)[h].rules, event)

CountFor(counts, id) == IF HasKey(counts, id) THEN counts[id] ELSE 0

\* C3: every request that matches a rule of an enabled group adds one to the
\* count of the earliest matching group (presets in settings order, custom last)
\* and to no other count
C3_FirstMatchingGroupCounted ==
  (FilterDone /\ fnArgs.settings.applyFilters) =>
    \A g \in 1..Len(DeclaredGroups(fnArgs.settings)) :
      CountFor(fnResult[1].ignoredCounts, DeclaredGroups(fnArgs.settings)[g].id)
        = Cardinality({i \in 1..Len(fnArgs.events) :
            /\ fnArgs.events[i].kind = "request"
            /\ EarliestMatchingGroup(fnArgs.settings, fnArgs.events[i], g)})

InertSettings(settings) ==
  \/ ~settings.applyFilters
  \/ \A g \in 1..Len(DeclaredGroups(settings)) : DeclaredGroups(settings)[g].rules = <<>>

\* C4: with applyFilters off, or with no enabled group (the custom group
\* included) that yields a compiled rule, applyTraceFilters returns every input
\* event, the same objects in the same order, and empty ignoredCounts
C4_FailOpen ==
  (FilterDone /\ InertSettings(fnArgs.settings)) =>
    /\ fnResult[1].filteredEvents = fnArgs.events
    /\ fnResult[1].ignoredCounts = EmptyMap

\* applyFilters is off while an enabled group has a rule that matches a request
\* of the input, and the call has returned
C4_Witness ==
  /\ FilterDone
  /\ ~fnArgs.settings.applyFilters
  /\ \E i \in 1..Len(fnArgs.events) :
       /\ fnArgs.events[i].kind = "request"
       /\ ActiveRulesMatch([fnArgs.settings EXCEPT !.applyFilters = TRUE], fnArgs.events[i])
  /\ fnResult[1].filteredEvents = fnArgs.events

\* C5: the output is the input without the requests that match an active rule:
\* an event is dropped if and only if it is a request matching an active rule
C5_DropsExactlyMatchingRequests ==
  FilterDone =>
    fnResult[1].filteredEvents
      = SelectSeq(fnArgs.events,
          LAMBDA e : ~(e.kind = "request" /\ ActiveRulesMatch(fnArgs.settings, e)))


(***************************************************************************)
(* Claims about the derived data, under SpecDerive.                        *)
(***************************************************************************)
TimelineDone == fnResult.timeline # Null
DiagramDone == fnResult.diagram # Null
TraceMapDone == fnResult.sequenceTraceMap # Null

InteractionKinds == {"click", "navigation", "spa-navigation"}

\* the interaction at i is the latest one at or before j
LatestInteraction(events, i, j) ==
  /\ i < j
  /\ events[i].kind \in InteractionKinds
  /\ \A k \in (i + 1)..j : events[k].kind \notin InteractionKinds

NoInteractionBefore(events, j) ==
  \A k \in 1..j : events[k].kind \notin InteractionKinds

\* the markers made from the event at position i
MarkersOf(markers, events, i) ==
  {m \in Range(markers) : m.event = events[i]}

\* C1: in the result of computeTimeline, the marker of a request at j whose
\* latest preceding interaction is at i has triggeredBy = the event at i, and
\* the marker of that interaction lists the request in relatedRequests; the
\* marker of a request before the first interaction has triggeredBy = null.
C1_RequestsBelongToLatestInteraction ==
  TimelineDone =>
    LET events == fnArgs.events
        computed == fnResult.timeline[1]
    IN \A j \in 1..Len(events) :
         events[j].kind = "request" =>
           /\ \A i \in 1..Len(events) :
                LatestInteraction(events, i, j) =>
                  /\ \A m \in MarkersOf(computed.requests, events, j) :
                       m.triggeredBy = Some(events[i])
                  /\ \A m \in MarkersOf(computed.clicks, events, i) :
                       events[j] \in Range(m.relatedRequests)
           /\ NoInteractionBefore(events, j) =>
                \A m \in MarkersOf(computed.requests, events, j) :
                  m.triggeredBy = Null

\* the lines of a script, and what the synthesizer writes on them; the id of
\* a comment is the text after %%, the blanks around it aside
IsMessageLine(line) == \E i \in 1..Len(line) : line[i] \in {"->>", "-->>"}
IsCommentLine(line) == Len(line) >= 2 /\ line[1] = WS /\ line[2] = "%%"
CommentId(line) == Trim(SubSeq(line, 3, Len(line)))
HasIdComment(lines, k) ==
  k > 1 /\ IsCommentLine(lines[k - 1]) /\ CommentId(lines[k - 1]) # <<>>
SequenceNumber(lines, k) == Cardinality({m \in 1..k : IsMessageLine(lines[m])})

IsNoteLine(line) ==
  Len(line) = 2 /\ line[2] \in {"Note over User,WebApp: No events recorded",
                                "Note over User,WebApp: No interaction events recorded"}

ScriptBody(diagram) == SelectSeq(SplitLines(diagram), LAMBDA line : ~IsNoteLine(line))

\* the events from the first interaction on
RECURSIVE FromFirstInteraction(_)
FromFirstInteraction(events) ==
  IF events = <<>> THEN <<>>
  ELSE IF Head(events).kind \in InteractionKinds THEN events
  ELSE FromFirstInteraction(Tail(events))

\* C8: the requests before the first interaction put no line in the script
\* (the script is that of the events from the first interaction on), and
\* computeTimeline has a request marker, with no triggering interaction, for
\* each of them.
C8_EarlyRequestsOnlyOnTimeline ==
  TimelineDone /\ DiagramDone =>
    LET events == fnArgs.events
        computed == fnResult.timeline[1]
    IN /\ ScriptBody(fnResult.diagram[1])
            = ScriptBody(generateMermaidFromTrace(Some(FromFirstInteraction(events))))
       /\ \A j \in 1..Len(events) :
            events[j].kind = "request" /\ NoInteractionBefore(events, j) =>
              \E m \in MarkersOf(computed.requests, events, j) : m.triggeredBy = Null


(***************************************************************************)
(* Claims about applyEventOverridesToEvents, under SpecOverrides.          *)
(***************************************************************************)
OverridesDone == fnResult # Null

IsRemovedBy(overrides, event) ==
  HasKey(overrides, event.jrInternalId) /\ overrides[event.jrInternalId].removed

IsRelabelledBy(overrides, event) ==
  /\ HasKey(overrides, event.jrInternalId)
  /\ ~overrides[event.jrInternalId].removed
  /\ overrides[event.jrInternalId].label # Undef
  /\ overrides[event.jrInternalId].label # event.label

\* the positions of the events that are not removed, in order
KeptPositions(events, overrides) ==
  SelectSeq([i \in 1..Len(events) |-> i],
            LAMBDA i : ~IsRemovedBy(overrides, events[i]))

\* C6: the output of applyEventOverridesToEvents holds, in the order of the
\* input, one entry for each event that is not removed and none for a removed
\* one; the entry of an event whose override label differs from its label is a
\* new object equal to the event in every field but label, which is the
\* override's; the entry of any other event is the event object itself.
C6_OverridesApplied ==
  OverridesDone =>
    LET events == fnArgs.events
        overrides == fnArgs.overrides
        output == fnResult[1]
        kept == KeptPositions(events, overrides)
    IN /\ Len(output) = Len(kept)
       /\ \A k \in 1..Len(kept) :
            LET event == events[kept[k]]
            IN IF IsRelabelledBy(overrides, event)
               THEN /\ output[k].ref # event.ref
                    /\ output[k].label = overrides[event.jrInternalId].label
                    /\ [output[k] EXCEPT !.ref = event.ref, !.label = event.label] = event
               ELSE output[k] = event

C6_Witness ==
  /\ OverridesDone
  /\ \E i, j, k \in 1..Len(fnArgs.events) :
       /\ i < j /\ j < k
       /\ IsRelabelledBy(fnArgs.overrides, fnArgs.events[i])
       /\ IsRemovedBy(fnArgs.overrides, fnArgs.events[j])
       /\ ~HasKey(fnArgs.overrides, fnArgs.events[k].jrInternalId)
  /\ Len(fnResult[1]) = 2

(***************************************************************************)
(* Claims about the App component, under Spec.                             *)
(***************************************************************************)
TraceLoaded == ~IsNull(loadedTraceFile)

MessageLines(diagram) == SelectSeq(SplitLines(diagram), IsMessageLine)

\* C2: no event marked removed is in the filtered event list, and a removed
\* interaction does not open the diagram's gate: the script is that of the
\* filtered events from their first interaction on, so that with every
\* interaction of the loaded trace removed the script has no message line.
C2_RemovedEventsLeaveListAndGate ==
  TraceLoaded =>
    LET shown == FilteredEvents
        script == generateMermaidFromTrace(Some(shown))
    IN /\ script = generatedDiagram
       /\ \A i \in 1..Len(shown) : ~IsRemovedBy(eventOverrides, shown[i])
       /\ ScriptBody(script)
            = ScriptBody(generateMermaidFromTrace(Some(FromFirstInteraction(shown))))
       /\ (\A i \in 1..Len(LoadedEvents) :
             LoadedEvents[i].kind \in InteractionKinds
               => IsRemovedBy(eventOverrides, LoadedEvents[i]))
            => MessageLines(script) = <<>>

\* a click is removed and a request that came after it is still listed
C2_Witness ==
  /\ TraceLoaded
  /\ \E i \in 1..Len(LoadedEvents) :
       /\ LoadedEvents[i].kind = "click"
       /\ IsRemovedBy(eventOverrides, LoadedEvents[i])
       /\ \E j \in (i + 1)..Len(LoadedEvents) :
            /\ LoadedEvents[j].kind = "request"
            /\ \E k \in 1..Len(FilteredEvents) :
                 FilteredEvents[k].jrInternalId = LoadedEvents[j].jrInternalId
  /\ \A k \in 1..Len(FilteredEvents) : FilteredEvents[k].kind = "request"
  /\ MessageLines(generatedDiagram) = <<>>

\* the step is the settling of a read whose file does not parse
FailedLoadStep ==
  \E read \in pendingReads :
    /\ pendingReads' = pendingReads \ {read}
    /\ IsNull(ParseTrace(read.file.content, read.call))

\* C9: when the read of a malformed trace file settles, the load failure is
\* shown and the loaded trace is the same after the step as before it.
C9_FailedLoadKeepsLoadedTrace ==
  [][FailedLoadStep => (fileError' = Some(LOAD_ERROR) /\ loadedTraceFile' = loadedTraceFile)]_vars

\* the step is the settling of a read
LoadStep == \E read \in pendingReads : pendingReads' = pendingReads \ {read}

\* C10: no step other than the settling of a trace file's read changes the
\* loaded trace, its event list or the jrInternalId of any of its events.
C10_OnlyLoadingReplacesLoadedTrace ==
  [][loadedTraceFile' # loadedTraceFile => LoadStep]_vars

\* a trace is loaded and has been edited, filtered and given a video
C10_Witness ==
  /\ TraceLoaded
  /\ \E i \in 1..Len(LoadedEvents) :
       /\ HasKey(eventOverrides, LoadedEvents[i].jrInternalId)
       /\ LoadedEvents[i].jrInternalId = generateInternalId(i - 1, 1)
  /\ \E id \in DOMAIN eventOverrides : eventOverrides[id].removed
  /\ \E id \in DOMAIN eventOverrides : eventOverrides[id].label # Undef
  /\ filterSettings # createDefaultFilterSettings
  /\ ~IsNull(video)
  /\ pendingReads = {}


\* an entry that changes nothing: not removed, and no label or the original one
IsNoOpOverride(internalId) ==
  /\ ~eventOverrides[internalId].removed
  /\ \/ eventOverrides[internalId].label = Undef
     \/ eventOverrides[internalId].label = OriginalLabel(internalId)

\* C11: whatever updateEventLabel, toggleEventRemoval, resetEventChanges and
\* restoreEventByInternalId calls were made, every entry of the override map
\* has removed = true or a label different from the original event's label,
\* and the map is empty exactly when the events after the overrides are the
\* loaded events.
C11_NoNoOpOverride ==
  /\ \A internalId \in DOMAIN eventOverrides : ~IsNoOpOverride(internalId)
  /\ eventOverrides = EmptyMap <=> manualEvents = LoadedEvents

(***************************************************************************)
(* Claims about the download and the reload of it, under SpecExport.       *)
(***************************************************************************)
Reloaded == fnResult # Null /\ loadCount = 2

\* an event as the list shows it: its fields, the internal id and the object
\* identity aside
Shown(event) == [JsonEvent(event) EXCEPT !.jrInternalId = 0]

\* C12: once the downloaded file is loaded with the filters off and no
\* override, the filtered event list has the events of the list that was
\* exported, in the same order and equal in every field (the internal ids
\* aside).
C12_ExportReloadRoundTrip ==
  Reloaded =>
    /\ Len(FilteredEvents) = Len(fnArgs[1])
    /\ \A i \in 1..Len(FilteredEvents) : Shown(FilteredEvents[i]) = Shown(fnArgs[1][i])

C12_Witness ==
  /\ Reloaded
  /\ Len(fnArgs[1]) = 1
  /\ fnArgs[1][1].label = "Buy"
  /\ fnArgs[1][1].kind = "request"
  /\ FilteredEvents[1].label = "Buy"

(***************************************************************************)
(* Claims about the diagram script of a journey, under SpecDerive.         *)
(***************************************************************************)
\* the parts of a message line: sender, arrow and receiver
ArrowAt(line) == CHOOSE i \in 1..Len(line) : line[i] \in {"->>", "-->>"}
ColonAt(line) ==
  SetMin({i \in ArrowAt(line)..Len(line) : line[i] = ": "})
Sender(line) == SubSeq(line, 2, ArrowAt(line) - 1)
Arrow(line) == line[ArrowAt(line)]
Receiver(line) == SubSeq(line, ArrowAt(line) + 1, ColonAt(line) - 1)
MessageText(line) == SubSeq(line, ColonAt(line) + 1, Len(line))

IsClickMessage(line, host) ==
  /\ Sender(line) = <<"User">> /\ Arrow(line) = "->>" /\ Receiver(line) = host
  /\ Head(MessageText(line)) = "Click \""

IsRequestMessage(line, from, to) ==
  Sender(line) = from /\ Arrow(line) = "->>" /\ Receiver(line) = to

IsResponseMessage(line, from, to) ==
  Sender(line) = to /\ Arrow(line) = "-->>" /\ Receiver(line) = from

\* the message lines of the example journey, in order: the click, a request
\* and its response for each of the two requests, the second click
ExampleMessagesInOrder(messages) ==
  LET app == <<"app", "com">>
      api == <<"api", "app", "com">>
  IN \E c1, r1, r2, c2 \in 1..Len(messages) :
       /\ c1 < r1 /\ r1 + 1 < r2 /\ r2 + 1 < c2
       /\ IsClickMessage(messages[c1], app)
       /\ IsRequestMessage(messages[r1], app, api)
       /\ MessageText(messages[r1]) = <<"GET", " ", "/a">>
       /\ IsResponseMessage(messages[r1 + 1], app, api)
       /\ IsRequestMessage(messages[r2], app, api)
       /\ MessageText(messages[r2]) = <<"GET", " ", "/b">>
       /\ IsResponseMessage(messages[r2 + 1], app, api)
       /\ IsClickMessage(messages[c2], app)

ExampleDiagramDone == fnArgs = ExampleArgs /\ DiagramDone

\* C13: the script of the example journey (a click on app.com, requests to
\* https://api.app.com/a and https://api.app.com/b, a second click) holds, in
\* order, the click message, two request/response pairs from app.com to
\* api.app.com and the second click message; these are all its message
\* lines, six of them, numbered 1 to 6.
C13_ExampleDiagramSixMessages ==
  ExampleDiagramDone =>
    LET lines == SplitLines(fnResult.diagram[1])
        messages == MessageLines(fnResult.diagram[1])
    IN /\ ExampleMessagesInOrder(messages)
       /\ Len(messages) = 6
       /\ {SequenceNumber(lines, k) : k \in {m \in 1..Len(lines) : IsMessageLine(lines[m])}}
            = 1..6

C13_Witness ==
  /\ ExampleDiagramDone
  /\ LET messages == MessageLines(fnResult.diagram[1])
     IN /\ Len(messages) > 1
        /\ IsClickMessage(messages[1], <<"app", "com">>)
        /\ IsClickMessage(messages[Len(messages)], <<"app", "com">>)

\* C13 as stated: the same messages in the same order, four message lines in
\* total, numbered 1 to 4
C13_ExampleDiagramFourMessages ==
  ExampleDiagramDone =>
    LET lines == SplitLines(fnResult.diagram[1])
        messages == MessageLines(fnResult.diagram[1])
    IN /\ ExampleMessagesInOrder(messages)
       /\ Len(messages) = 4
       /\ {SequenceNumber(lines, k) : k \in {m \in 1..Len(lines) : IsMessageLine(lines[m])}}
            = 1..4

\* the positions of the requests with a data: URL that come after an interaction
DataUrlRequestsShown(events) ==
  {j \in 1..Len(events) :
     /\ events[j].kind = "request"
     /\ isDataUrl(events[j].url)
     /\ \E i \in 1..(j - 1) : isInteractionKind(events[i].kind)}

\* C14: every request with a data: URL that comes after an interaction has
\* exactly one message line in the script, a line sent to embedded_asset, and
\* no response line: the script has as many lines to embedded_asset as there
\* are such requests, and no line from embedded_asset.
C14_DataUrlRequestOneLine ==
  DiagramDone =>
    LET messages == MessageLines(fnResult.diagram[1])
    IN /\ Cardinality({k \in 1..Len(messages) :
                         /\ Receiver(messages[k]) = <<"embedded_asset">>
                         /\ Arrow(messages[k]) = "->>"})
            = Cardinality(DataUrlRequestsShown(fnArgs.events))
       /\ \A k \in 1..Len(messages) : Sender(messages[k]) # <<"embedded_asset">>
       /\ \A k \in 1..Len(messages) :
            Receiver(messages[k]) = <<"embedded_asset">> => Arrow(messages[k]) = "->>"

C14_Witness ==
  /\ DiagramDone
  /\ Len(fnArgs.events) = 3
  /\ fnArgs.events[1].kind = "click"
  /\ DataUrlRequestsShown(fnArgs.events) = {2}
  /\ fnArgs.events[3].kind = "request"
  /\ LET messages == MessageLines(fnResult.diagram[1])
     IN /\ Len(messages) >= 3
        /\ Receiver(messages[2]) = <<"embedded_asset">>
        /\ Receiver(messages[3]) # <<"embedded_asset">>

(***************************************************************************)
(* Claims about the time axis of computeTimeline, under SpecDerive.        *)
(***************************************************************************)
EventTimestamps(events) ==
  {events[i].ts : i \in {j \in 1..Len(events) : events[j].ts # NoNum}}

\* the values startTs is the least of and endTs the greatest of; a value that
\* does not exist (no event with a ts, no anchor, no duration) is left out,
\* and 0 stands in for a start nothing gives
StartCandidates(events, anchorMs) ==
  LET given == EventTimestamps(events) \cup Range(anchorMs)
  IN IF given = {} THEN {0}
     ELSE IF IsNull(anchorMs) THEN {SetMin(EventTimestamps(events))}
     ELSE {SetMin(EventTimestamps(events) \cup Range(anchorMs))}

EndCandidates(events, anchorMs, durationMs, startTs) ==
  EventTimestamps(events)
    \cup (IF IsNull(anchorMs) \/ IsNull(durationMs) THEN {}
          ELSE {anchorMs[1] + durationMs[1]})
    \cup {startTs + 1}

\* C15: computeTimeline returns startTs = min(videoAnchorMs, earliest event ts)
\* when there is a video anchor and the earliest event ts otherwise, endTs =
\* max(latest event ts, videoAnchorMs + videoDurationMs, startTs + 1) and
\* timeRangeMs = endTs - startTs, which is at least 1 for every input, and is
\* 1000 for the example journey (events from ts 1000 to 2000, anchor 1000, no
\* video duration).
C15_TimeRangeAtLeastOne ==
  TimelineDone =>
    LET computed == fnResult.timeline[1]
    IN /\ computed.timeRangeMs # Null
       /\ computed.startTs = Some(SetMin(StartCandidates(fnArgs.events, fnArgs.anchorMs)))
       /\ computed.endTs =
            Some(SetMax(EndCandidates(fnArgs.events, fnArgs.anchorMs, fnArgs.durationMs,
                                      computed.startTs[1])))
       /\ computed.timeRangeMs = Some(computed.endTs[1] - computed.startTs[1])
       /\ computed.timeRangeMs[1] >= 1
       /\ fnArgs = ExampleArgs => computed.timeRangeMs = Some(1000)

(***************************************************************************)
(* Claims about ensureInternalIds, under SpecBackfill.                     *)
(***************************************************************************)
BackfilledOnce == fnResult.once # Null
BackfilledTwice == fnResult.twice # Null

ParsedEvents == IF IsNull(fnArgs.events) THEN <<>> ELSE fnArgs.events[1]

\* C16: ensureInternalIds leaves the jrInternalId of every event that has one
\* as it is, and run on its own result it returns the same trace: the same
\* events in the same order, each with the same jrInternalId.
C16_BackfillIdempotent ==
  /\ BackfilledOnce =>
       LET once == fnResult.once[1].events[1]
       IN /\ Len(once) = Len(ParsedEvents)
          /\ \A i \in 1..Len(once) :
               /\ once[i].jrInternalId # 0
               /\ ParsedEvents[i].jrInternalId # 0 => once[i] = ParsedEvents[i]
  /\ BackfilledTwice => fnResult.twice = fnResult.once

C16_Witness ==
  /\ BackfilledTwice
  /\ Len(ParsedEvents) = 3
  /\ ParsedEvents[1].jrInternalId = 0
  /\ ParsedEvents[2].jrInternalId # 0
  /\ ParsedEvents[3].jrInternalId = ParsedEvents[2].jrInternalId
  /\ fnResult.twice[1].events[1][1].jrInternalId = generateInternalId(0, 1)

(***************************************************************************)
(* Claims about the active marker, under Spec.  Every state of Spec is a   *)
(* settled one: the marker effects have run on the render after a handler. *)
(***************************************************************************)
TimelineMarkers == Range(timeline.clicks) \cup Range(timeline.requests)

\* C17: in every settled state, after whatever override edits, filter changes
\* and trace loads, the active marker, if there is one, is a marker of the
\* current timeline, and activeMarkerId is its id.
C17_ActiveMarkerIsCurrent ==
  ~IsNull(activeMarker) =>
    /\ activeMarker[1] \in TimelineMarkers
    /\ activeMarkerId = Some(activeMarker[1].id)

(***************************************************************************)
(* Claims about the hosts of the timeline and of the diagram, under        *)
(* SpecDerive.                                                             *)
(***************************************************************************)
\* a host without a leading www., and the placeholder for a host that is absent
StripWww(host) ==
  IF Len(host) >= 2 /\ host[1] \in {"www", "WWW", "Www"} THEN Tail(host) ELSE host
PLACEHOLDER_HOST == <<"WebApp">>
HostOrPlaceholder(host) == IF host = <<>> THEN PLACEHOLDER_HOST ELSE StripWww(host)

\* where a click leads: its targetHost when it has one that differs from its
\* own host, www. aside, and its own host otherwise
HostAfterClick(click) ==
  IF click.targetHost # <<>> /\ StripWww(click.targetHost) # HostOrPlaceholder(click.host)
  THEN StripWww(click.targetHost)
  ELSE HostOrPlaceholder(click.host)

\* C18: the from of every request marker of computeTimeline is the host of
\* the interaction the marker is triggeredBy when that is a navigation or a
\* spa-navigation; where the click leads (its targetHost when it has one that
\* differs from its own host, else its own host) when it is a click; and the
\* placeholder WebApp when the marker has no trigger; every host without its
\* leading www., and the placeholder for a host an interaction does not have.
C18_RequestMarkerCurrentHost ==
  TimelineDone =>
    \A k \in 1..Len(fnResult.timeline[1].requests) :
      LET marker == fnResult.timeline[1].requests[k]
      IN marker.from =
           IF IsNull(marker.triggeredBy) THEN PLACEHOLDER_HOST
           ELSE IF marker.triggeredBy[1].kind = "click"
           THEN HostAfterClick(marker.triggeredBy[1])
           ELSE HostOrPlaceholder(marker.triggeredBy[1].host)

C18_Witness ==
  /\ TimelineDone
  /\ \E k \in 1..Len(fnResult.timeline[1].requests) :
       LET marker == fnResult.timeline[1].requests[k]
       IN /\ ~IsNull(marker.triggeredBy)
          /\ marker.triggeredBy[1].kind = "click"
          /\ marker.triggeredBy[1].targetHost = <<"www", "app", "com">>
          /\ marker.from = <<"app", "com">>
  /\ \E k \in 1..Len(fnResult.timeline[1].requests) :
       IsNull(fnResult.timeline[1].requests[k].triggeredBy)

(***************************************************************************)
(* Claims about the host context of generateMermaidFromTrace, under        *)
(* SpecDerive.                                                             *)
(***************************************************************************)
\* the host context after the first i events: the placeholder before any
\* interaction; where the latest click leads; the host of the latest
\* navigation; the host of the latest spa-navigation, which stays in the
\* context it was in when it names no host
RECURSIVE HostContextAfter(_, _)
HostContextAfter(events, i) ==
  IF i = 0 THEN PLACEHOLDER_HOST
  ELSE IF events[i].kind = "click" THEN HostAfterClick(events[i])
  ELSE IF events[i].kind = "navigation" THEN HostOrPlaceholder(events[i].host)
  ELSE IF events[i].kind = "spa-navigation" /\ events[i].host # <<>>
  THEN StripWww(events[i].host)
  ELSE HostContextAfter(events, i - 1)

\* sender, arrow and receiver of the message lines the events from position i
\* on are to have
RECURSIVE ExpectedEnds(_, _)
ExpectedEnds(events, i) ==
  IF i > Len(events) THEN <<>>
  ELSE
    LET event == events[i]
        before == HostContextAfter(events, i - 1)
        after == HostContextAfter(events, i)
        user == <<"User">>
        endpoint == formatRequestForMermaid(event)
        own == IF event.kind = "click"
               THEN << <<user, "->>", HostOrPlaceholder(event.host)>> >>
                      \o (IF after # HostOrPlaceholder(event.host)
                          THEN << <<HostOrPlaceholder(event.host), "->>", after>> >>
                          ELSE <<>>)
               ELSE IF event.kind = "navigation" THEN << <<user, "->>", after>> >>
               ELSE IF event.kind = "spa-navigation" THEN << <<before, "->>", after>> >>
               ELSE IF event.kind = "request" /\ ~NoInteractionBefore(events, i)
               THEN << <<after, "->>", endpoint.host>> >>
                      \o (IF ~endpoint.skipResponse
                          THEN << <<endpoint.host, "-->>", after>> >>
                          ELSE <<>>)
               ELSE <<>>
    IN own \o ExpectedEnds(events, i + 1)

Ends(line) == <<Sender(line), Arrow(line), Receiver(line)>>

\* C19: the message lines of the script run between the hosts the host
\* context gives: a click goes from User to the click's host, followed by a
\* line from the click's host to its targetHost when that differs from the
\* click's host; a navigation goes from User to its host; a spa-navigation
\* from the context before it to its host; and every request after an
\* interaction is sent from, and its response returned to, the context the
\* latest interaction before it has set.
C19_DiagramHostContext ==
  DiagramDone =>
    LET messages == MessageLines(fnResult.diagram[1])
    IN [k \in 1..Len(messages) |-> Ends(messages[k])] = ExpectedEnds(fnArgs.events, 1)

(***************************************************************************)
(* Claims about pattern lines that do not compile, under SpecFilters.      *)
(***************************************************************************)
\* the pattern of a line: the line trimmed, without its method: or status:
\* prefix
PatternOfLine(line) ==
  LET trimmed == Trim(line)
  IN IF trimmed # <<>> /\ Head(trimmed) \in {"method:", "status:"}
     THEN Trim(Tail(trimmed))
     ELSE trimmed

DoesNotCompile(line) ==
  PatternOfLine(line) # <<>> /\ IsNull(buildRegExp(PatternOfLine(line)))

HasBadLine(text) == \E i \in 1..Len(SplitLines(text)) : DoesNotCompile(SplitLines(text)[i])

WithoutBadLines(text) ==
  JoinLines(SelectSeq(SplitLines(text), LAMBDA line : ~DoesNotCompile(line)))

SettingsWithoutBadLines(settings) ==
  [applyFilters |-> settings.applyFilters,
   customRegexText |-> WithoutBadLines(settings.customRegexText),
   groups |-> [i \in 1..Len(settings.groups) |->
                [settings.groups[i] EXCEPT !.patternsText = WithoutBadLines(@)]]]

\* the pattern texts in force: those of the enabled groups and the custom one
ActiveTexts(settings) ==
  {settings.groups[i].patternsText :
     i \in {j \in 1..Len(settings.groups) : settings.groups[j].enabled}}
    \cup {settings.customRegexText}

\* C20: a pattern line that does not compile has no effect and stops nothing:
\* the call returns what it returns for the same settings without such lines,
\* and with the filters applied every other pattern line of a text that holds
\* such a line is a rule, and a request matching that rule (a rule whose
\* regex carries no position from one test to the next) is not in the output.
C20_BadLinesDroppedRestApply ==
  FilterDone =>
    /\ fnResult[1] = applyTraceFilters(fnArgs.events, SettingsWithoutBadLines(fnArgs.settings))
    /\ fnArgs.settings.applyFilters =>
         \A text \in {t \in ActiveTexts(fnArgs.settings) : HasBadLine(t)} :
           \A k \in 1..Len(SplitLines(text)) :
             LET line == SplitLines(text)[k]
                 rule == buildRuleFromLine(Trim(line))
             IN (PatternOfLine(line) # <<>> /\ ~DoesNotCompile(line)) =>
                  /\ ~IsNull(rule)
                  /\ ~(rule[1].regex.global \/ rule[1].regex.sticky) =>
                       \A i \in 1..Len(fnArgs.events) :
                         LET event == fnArgs.events[i]
                             value == getEventFieldByTarget(event, rule[1].target)
                         IN (/\ event.kind = "request"
                             /\ value # <<>>
                             /\ RegExpTest(rule[1].regex, value, 0).matched)
                              => event \notin Range(fnResult[1].filteredEvents)

\* a preset group and the custom text each hold a line that does not compile
\* and a valid one, and each has filtered a request
C20_Witness ==
  /\ FilterDone
  /\ fnArgs.settings.applyFilters
  /\ fnArgs.settings.customRegexText = <<"(", NL, WS, "status:", WS, "304", WS>>
  /\ fnArgs.settings.groups[2].patternsText = <<"(", NL, "method:", "^", "OPTIONS", "$">>
  /\ Len(fnArgs.events) = 2
  /\ fnResult[1].filteredEvents = <<>>
  /\ HasKey(fnResult[1].ignoredCounts, "custom")
  /\ HasKey(fnResult[1].ignoredCounts, "preflight")

(***************************************************************************)
(* Claims about the note line of the script, under SpecDerive.             *)
(***************************************************************************)
ScriptHeader == << <<"sequenceDiagram">>, <<WS, "autonumber">> >>
NoEventsNote == <<WS, "Note over User,WebApp: No events recorded">>
NoInteractionNote == <<WS, "Note over User,WebApp: No interaction events recorded">>

\* C21: a script without a message line is the two header lines and one note
\* line, the note of the empty event list when the list is empty and the note
\* of the list without interaction when it is not; a script with a message
\* line has no note line.
C21_NoteIffNoMessage ==
  DiagramDone =>
    LET lines == SplitLines(fnResult.diagram[1])
    IN IF MessageLines(fnResult.diagram[1]) = <<>>
       THEN /\ lines = ScriptHeader
                         \o << IF fnArgs.events = <<>> THEN NoEventsNote
                               ELSE NoInteractionNote >>
            /\ NoEventsNote # NoInteractionNote
       ELSE \A k \in 1..Len(lines) : ~IsNoteLine(lines[k])

\* a list of requests only has been given its script, which holds a note
C21_Witness ==
  /\ DiagramDone
  /\ Len(fnArgs.events) = 2
  /\ \A i \in 1..2 : fnArgs.events[i].kind = "request"
  /\ \E k \in 1..Len(SplitLines(fnResult.diagram[1])) :
       IsNoteLine(SplitLines(fnResult.diagram[1])[k])

(***************************************************************************)
(* DiagramPanel.  diagramPanel holds the props diagram and activeTraceId,  *)
(* the state renderError, the content of the container (innerHTML: the     *)
(* graphic of a script with the data-trace-id its numbered messages carry) *)
(* and the calls of render suspended at `await mermaid.render(...)`, each  *)
(* with the diagram of its closure and the isMounted flag of its effect.   *)
(* Specification SpecDiagram gives the panel every sequence of props and   *)
(* lets every render resolve or reject.                                    *)
(***************************************************************************)
MaxRenders == 2       \* calls of render under way at once

\* the scripts App hands down: none, the script of a click with an id, and
\* the script of a click without id followed by a request with an id
DiagramPool ==
  { <<>>,
    generateMermaidFromTrace(Some(<<
      [BlankEvent EXCEPT !.kind = "click", !.id = "1", !.label = "Buy",
         !.host = <<"app", "com">>] >>)),
    generateMermaidFromTrace(Some(<<
      [BlankEvent EXCEPT !.kind = "click", !.text = "Pay", !.host = <<"app", "com">>],
      [Request(Url("https://", <<"api", "app", "com">>, <<"/a">>), "GET", 200)
         EXCEPT !.id = "3"] >>)) }

ActiveTracePool == {Undef, "1", "3"}

\* error.message of the exception mermaid.render throws for a script
RenderError(script) == <<"Parse error in">> \o script

\* the numbers mermaid's autonumber writes, one .sequenceNumber per message
SequenceNumbers(script) ==
  1..Cardinality({k \in 1..Len(SplitLines(script)) :
                    \E i \in 1..Len(SplitLines(script)[k]) :
                      SplitLines(script)[k][i] \in {"->>", "-->>"}})

\* attachTraceMetadata(svg, sequenceTraceMap): every data-trace-id is taken
\* off, then each numbered message whose number has an entry is given it
attachTraceMetadata(svg, sequenceTraceMap) ==
  IF IsNull(svg) THEN svg
  ELSE Some([svg[1] EXCEPT !.tags =
               [n \in {m \in SequenceNumbers(svg[1].script) : HasKey(sequenceTraceMap, m)}
                  |-> sequenceTraceMap[n]]])

\* containerRef.current.innerHTML = svg, then attachTraceMetadata
RenderedInto(script, sequenceTraceMap) ==
  attachTraceMetadata(Some([script |-> script, tags |-> EmptyMap]), sequenceTraceMap)

\* the effects that follow a render of the panel with a new diagram: the
\* cleanup of the render effect, the render effect, the tag effect
DiagramChanges(script) ==
  /\ script # diagramPanel.diagram
  /\ Trim(script) # <<>> =>
       Cardinality(diagramPanel.renders) < MaxRenders
  /\ LET unmounted == {[call EXCEPT !.isMounted = FALSE] : call \in diagramPanel.renders}
         cleared == IF Trim(script) = <<>> THEN Null ELSE diagramPanel.innerHTML
     IN diagramPanel' =
          [diagramPanel EXCEPT
             !.diagram = script,
             !.renders = IF Trim(script) = <<>> THEN unmounted
                         ELSE unmounted \cup {[script |-> script, isMounted |-> TRUE]},
             !.innerHTML = attachTraceMetadata(cleared, buildSequenceTraceMap(script))]
  /\ UNCHANGED <<appVars, fnArgs, fnResult>>

\* the tag effect after a render with a new activeTraceId
ActiveTraceChanges(traceId) ==
  /\ traceId # diagramPanel.activeTraceId
  /\ diagramPanel' =
       [diagramPanel EXCEPT
          !.activeTraceId = traceId,
          !.innerHTML = attachTraceMetadata(diagramPanel.innerHTML,
                          buildSequenceTraceMap(diagramPanel.diagram))]
  /\ UNCHANGED <<appVars, fnArgs, fnResult>>

\* render whose catch block leaves the container as it is
renderRejectsKeepingGraphic(call) ==
  /\ call \in diagramPanel.renders
  /\ diagramPanel' =
       [diagramPanel EXCEPT
          !.renders = @ \ {call},
          !.renderError = IF call.isMounted THEN Some(RenderError(call.script)) ELSE @]
  /\ UNCHANGED <<appVars, fnArgs, fnResult>>

\* render, from the await on, when mermaid.render resolves
renderResolves(call) ==
  /\ call \in diagramPanel.renders
  /\ diagramPanel' =
       [diagramPanel EXCEPT
          !.renders = @ \ {call},
          !.innerHTML = IF call.isMounted
                        THEN RenderedInto(call.script, buildSequenceTraceMap(call.script))
                        ELSE @,
          !.renderError = IF call.isMounted THEN Null ELSE @]
  /\ UNCHANGED <<appVars, fnArgs, fnResult>>

\* render, from the await on, when mermaid.render rejects
renderRejects(call) ==
  /\ call \in diagramPanel.renders
  /\ diagramPanel' =
       [diagramPanel EXCEPT
          !.renders = @ \ {call},
          !.renderError = IF call.isMounted THEN Some(RenderError(call.script)) ELSE @,
          !.innerHTML = IF call.isMounted THEN Null ELSE @]
  /\ UNCHANGED <<appVars, fnArgs, fnResult>>

InitDiagram ==
  /\ InitApp
  /\ fnArgs = Null
  /\ fnResult = Null

NextDiagram ==
  \/ \E script \in DiagramPool : DiagramChanges(script)
  \/ \E traceId \in ActiveTracePool : ActiveTraceChanges(traceId)
  \/ \E call \in diagramPanel.renders : renderResolves(call)
  \/ \E call \in diagramPanel.renders : renderRejects(call)

SpecDiagram == InitDiagram /\ [][NextDiagram]_vars

\* the panel shows the error paragraph / the container holds a graphic
ErrorShown == ~IsNull(diagramPanel.renderError)
GraphicDisplayed == ~IsNull(diagramPanel.innerHTML)

\* C22: when the render of the current diagram script fails, its error is
\* shown and the container is emptied; and whenever an error is shown no
\* graphic, of this script or an earlier one, is displayed.
C22_FailureClearsGraphic ==
  /\ [](ErrorShown => ~GraphicDisplayed)
  /\ [][\A call \in diagramPanel.renders :
          (call.isMounted /\ renderRejects(call)) =>
            /\ call.script = diagramPanel.diagram
            /\ diagramPanel'.renderError = Some(RenderError(diagramPanel.diagram))
            /\ ~GraphicDisplayed']_vars

\* the render of the current script has failed, while the render of an
\* earlier script, superseded, is still under way
C22_Witness ==
  /\ Trim(diagramPanel.diagram) # <<>>
  /\ diagramPanel.renderError = Some(RenderError(diagramPanel.diagram))
  /\ ~GraphicDisplayed
  /\ \E call \in diagramPanel.renders :
       ~call.isMounted /\ call.script # diagramPanel.diagram

(***************************************************************************)
(* Timeline and diagram side by side, under SpecDerive.                    *)
(***************************************************************************)
\* the message lines generateMermaidFromTrace writes for the first i events;
\* the generator appends as it goes, so these begin the lines of the whole
MessagesUpTo(events, i) ==
  IF i = 0 THEN <<>> ELSE MessageLines(generateMermaidFromTrace(Some(SubSeq(events, 1, i))))

\* the message lines the event at position i adds to the script
LinesOfEvent(events, i) ==
  SubSeq(MessagesUpTo(events, i), Len(MessagesUpTo(events, i - 1)) + 1,
         Len(MessagesUpTo(events, i)))

\* the position, among the request markers, of the marker of the request at
\* position i: requests keeps the order of the events
RequestMarkerIndex(events, i) ==
  Cardinality({j \in 1..i : events[j].kind = "request"})

\* C23: every request that has a message line in the script is sent there from
\* the participant that the request's timeline marker, computed from the same
\* events, names as its from.
C23_SenderIsMarkerFrom ==
  (DiagramDone /\ fnResult.timeline[1].requests # <<>>) =>
    \A i \in 1..Len(fnArgs.events) :
      (fnArgs.events[i].kind = "request" /\ LinesOfEvent(fnArgs.events, i) # <<>>) =>
        Sender(LinesOfEvent(fnArgs.events, i)[1])
          = fnResult.timeline[1].requests[RequestMarkerIndex(fnArgs.events, i)].from

\* request marker r is listed in the relatedRequests of interaction marker c
ListedIn(r, c) == \E k \in 1..Len(c.relatedRequests) : c.relatedRequests[k] = r.event

\* C24: in a computeTimeline result a request is listed in the relatedRequests
\* of an interaction marker exactly if the request's marker has that
\* interaction's event as its triggeredBy, and so no request is listed by two
\* interaction markers.
C24_RelatedIffTriggeredBy ==
  TimelineDone =>
    LET clicks == fnResult.timeline[1].clicks
        requests == fnResult.timeline[1].requests
    IN /\ \A c \in 1..Len(clicks), r \in 1..Len(requests) :
            ListedIn(requests[r], clicks[c])
              <=> requests[r].triggeredBy = Some(clicks[c].event)
       /\ \A r \in 1..Len(requests) :
            Cardinality({c \in 1..Len(clicks) : ListedIn(requests[r], clicks[c])}) <= 1

(***************************************************************************)
(* Further claims about applyTraceFilters, under SpecFilters.              *)
(***************************************************************************)
\* sub is seq with some of its entries left out
RECURSIVE IsSubsequence(_, _)
IsSubsequence(sub, seq) ==
  IF sub = <<>> THEN TRUE
  ELSE IF seq = <<>> THEN FALSE
  ELSE IF Head(sub) = Head(seq) THEN IsSubsequence(Tail(sub), Tail(seq))
  ELSE IsSubsequence(sub, Tail(seq))

\* C25: applyTraceFilters partitions its input: filteredEvents is the input
\* with some events left out, the rest in their order, and the events kept
\* plus the ignoredCounts of all groups number as many as the input.
C25_FilterPartitionsInput ==
  FilterDone =>
    /\ IsSubsequence(fnResult[1].filteredEvents, fnArgs.events)
    /\ Len(fnResult[1].filteredEvents)
         + SumOver(DOMAIN fnResult[1].ignoredCounts, fnResult[1].ignoredCounts)
         = Len(fnArgs.events)

\* of two events the first is dropped and counted, the second kept
C25_Witness ==
  /\ FilterDone
  /\ Len(fnArgs.events) = 2
  /\ fnResult[1].filteredEvents = <<fnArgs.events[2]>>
  /\ SumOver(DOMAIN fnResult[1].ignoredCounts, fnResult[1].ignoredCounts) = 1

\* the url, path, method and status of an event: what the rules read
RequestFields(event) ==
  [url |-> event.url, path |-> event.path, method |-> event.method, status |-> event.status]

Kept(event) == \E k \in 1..Len(fnResult[1].filteredEvents) : fnResult[1].filteredEvents[k] = event

\* C26: within one call two requests with the same url, path, method and
\* status are both kept or both dropped, wherever they stand in the input and
\* whatever the flags of the pattern lines.
C26_SameRequestSameDecision ==
  FilterDone =>
    \A i, j \in 1..Len(fnArgs.events) :
      (/\ fnArgs.events[i].kind = "request"
       /\ fnArgs.events[j].kind = "request"
       /\ RequestFields(fnArgs.events[i]) = RequestFields(fnArgs.events[j])) =>
        (Kept(fnArgs.events[i]) <=> Kept(fnArgs.events[j]))

(***************************************************************************)
(* Further claims about the App component, under Spec.                     *)
(***************************************************************************)
\* the updater restoreEventByInternalId gives to setEventOverrides
RestoredById(prev, internalId) ==
  IF ~HasKey(prev, internalId) THEN prev ELSE Restored(prev, internalId)

\* C27: whenever an event is marked removed, restoring it next, by
\* toggleEventRemoval(event, false) or by restoreEventByInternalId, gives the
\* override map as it was before the removal, a pending label edit (the
\* empty label too) included.
C27_RemoveRestoreKeepsOverrides ==
  [][\A event \in ActiveEvents :
       (~isRemoved(event) /\ toggleEventRemoval(event, TRUE)) =>
         /\ ToggledRemoval(eventOverrides', event.jrInternalId, FALSE) = eventOverrides
         /\ RestoredById(eventOverrides', event.jrInternalId) = eventOverrides]_vars

(***************************************************************************)
(* Specification SpecReads: handleTraceSelect called again while earlier   *)
(* calls are suspended at their await; the reads settle in any order.      *)
(***************************************************************************)
NextReads ==
  \/ \E file \in TraceFilePool : handleTraceSelect(file)
  \/ \E read \in pendingReads : handleTraceSelectSettled(read)
  \/ \E file \in VideoFilePool : handleVideoSelect(file)
  \/ \E durationMs \in DurationPool : handleDuration(durationMs)

SpecReads == Init /\ [][NextReads]_vars

\* the read of the file selected last has settled, and a read of a file
\* selected before it, under another name, is still to settle
OvertakenRead(read) ==
  /\ read \in pendingReads
  /\ read.call < loadCount
  /\ \A other \in pendingReads : other.call # loadCount
  /\ read.file.name # fileNames.trace

C30_InternalIdsUnique ==
  TraceLoaded =>
    /\ \A i \in 1..Len(LoadedEvents) : LoadedEvents[i].jrInternalId # 0
    /\ \A i, j \in 1..Len(LoadedEvents) :
         i # j => LoadedEvents[i].jrInternalId # LoadedEvents[j].jrInternalId
    /\ LET markers == timeline.clicks \o timeline.requests
       IN \A k, l \in 1..Len(markers) : k # l => markers[k].id # markers[l].id
    /\ \A i \in 1..Len(LoadedEvents) :
         Len(applyEventOverridesToEvents(LoadedEvents,
               MapPut(EmptyMap, LoadedEvents[i].jrInternalId, Override(Undef, TRUE))))
           = Len(LoadedEvents) - 1

(***************************************************************************)
(* Further claims about DiagramPanel, under SpecDiagram.                   *)
(***************************************************************************)
\* the tags the displayed graphic carries are those the map of its own
\* script gives
TagsFromOwnScript ==
  GraphicDisplayed =>
    diagramPanel.innerHTML
      = RenderedInto(diagramPanel.innerHTML[1].script,
                     buildSequenceTraceMap(diagramPanel.innerHTML[1].script))

\* a render whose effect has been cleaned up changes nothing when it settles
SupersededRenderChangesNothing ==
  [][\A call \in diagramPanel.renders :
       (~call.isMounted /\ (renderResolves(call) \/ renderRejects(call))) =>
         /\ diagramPanel'.innerHTML = diagramPanel.innerHTML
         /\ diagramPanel'.renderError = diagramPanel.renderError]_vars

\* C29: at every moment the data-trace-id tags of the displayed graphic are
\* those computed from the script the graphic was rendered from, also while a
\* newer script is being rendered; and a render that has been superseded
\* changes neither the graphic nor the error shown when it settles.
C29_TagsMatchDisplayedScript ==
  /\ []TagsFromOwnScript
  /\ SupersededRenderChangesNothing

====
